---- MODULE Spec2Model ----
(***************************************************************************)
(* Model of the agent runtime of src/main.go: the sed dry-run guard        *)
(* (executeSed, generateSedOperationKey, sedDryRunCache), the permission   *)
(* gate, the two agent loops and the remote call with its retry wrapper    *)
(* (callWithRetry, shouldRetry, callOpenAIAPI).                            *)
(*                                                                         *)
(* Strings are sequences of one-character strings, so that formatting,     *)
(* splitting and substitution are computed character by character.         *)
(* A file is a path mapped to its content; a content is one line of text   *)
(* (the empty sequence is a file without any line).                        *)
(***************************************************************************)
EXTENDS Integers, Sequences, FiniteSets, TLC

\* ------------------------------------------------------------------ bounds
\* number of tool calls in one behaviour of the sed guard
MaxOps == 3
\* length of the strings the operation key is computed for
MaxKeyLen == 2

\* ------------------------------------------------------- string helpers
Chars == {"a", "|"}

\* all strings over Chars of length at most n
StrUpTo(n) == UNION {[1..k -> Chars] : k \in 0..n}

HasPrefixAt(s, i, p) ==
    /\ i + Len(p) - 1 <= Len(s)
    /\ SubSeq(s, i, i + Len(p) - 1) = p

\* strings.Contains
Contains(s, p) == \E i \in 1..(Len(s) + 1) : HasPrefixAt(s, i, p)

\* split s at every element equal to sep (strings.Split with a one-character
\* separator; also used on token sequences)
RECURSIVE SplitSeq(_, _)
SplitSeq(s, sep) ==
    IF \E i \in 1..Len(s) : s[i] = sep
    THEN LET i == CHOOSE k \in 1..Len(s) :
                      s[k] = sep /\ \A j \in 1..(k - 1) : s[j] # sep
         IN  <<SubSeq(s, 1, i - 1)>> \o SplitSeq(SubSeq(s, i + 1, Len(s)), sep)
    ELSE <<s>>

\* ------------------------------------------------ generateSedOperationKey
\* sha256.Sum256 followed by %x.  The digest is represented by the tagged
\* byte string it was computed from: SHA-256 is collision free on the
\* bounded inputs, so two digests are equal exactly when the hashed data are.
Sha256Hex(data) == <<"sha256">> \o data

\* fmt.Sprintf("%s|%s|%s", filePath, searchPattern, replacePattern)
SedKeyData(filePath, searchPattern, replacePattern) ==
    filePath \o <<"|">> \o searchPattern \o <<"|">> \o replacePattern

generateSedOperationKey(filePath, searchPattern, replacePattern) ==
    Sha256Hex(SedKeyData(filePath, searchPattern, replacePattern))

\* ---------------------------------------- arguments of the sed tool calls
\* a JSON argument that is absent from block.Input (or is no string)
Absent == <<"<absent>">>

\* shell injection: a replacement that closes the quote of the sed script
\* and adds the option -i to the command line of the preview
Injection == <<"|", "/", "'", " ", "-", "i", " ", "'">>

SedPaths == {<<"a">>, <<"|">>}
SearchPatterns == {<<>>, <<"a">>, <<"a", "|">>}
ReplacePatterns == {<<"a">>, <<"|", "a">>, Injection}

\* ------------------------------------------- command lines of executeSed
\* tempFile := filePath + ".tmp"
TempFile(filePath) == filePath \o <<".", "t", "m", "p">>

\* fmt.Sprintf("sed 's/%s/%s/g' '%s' > '%s' && diff -u '%s' '%s'; rm -f '%s'", ...)
SedPreviewCommand(filePath, searchPattern, replacePattern) ==
    <<"s", "e", "d", " ", "'", "s", "/">> \o searchPattern \o <<"/">>
        \o replacePattern \o <<"/", "g", "'", " ", "'">> \o filePath
        \o <<"'", " ", ">", " ", "'">> \o TempFile(filePath)
        \o <<"'", " ", "&", "&", " ", "d", "i", "f", "f", " ", "-", "u", " ", "'">>
        \o filePath \o <<"'", " ", "'">> \o TempFile(filePath)
        \o <<"'", ";", " ", "r", "m", " ", "-", "f", " ", "'">>
        \o TempFile(filePath) \o <<"'">>

\* exec.CommandContext(ctx, "sed", "-i", fmt.Sprintf("s/%s/%s/g", ...), filePath)
SedApplyArgs(filePath, searchPattern, replacePattern) ==
    << <<"-", "i">>,
       <<"s", "/">> \o searchPattern \o <<"/">> \o replacePattern \o <<"/", "g">>,
       filePath >>

\* ------------------------------------------------------------ file system
\* files maps each existing path to its content
Exists(fs, path) == path \in DOMAIN fs

WriteFile(fs, path, content) ==
    [p \in DOMAIN fs \cup {path} |-> IF p = path THEN content ELSE fs[p]]

RemoveFile(fs, path) == [p \in DOMAIN fs \ {path} |-> fs[p]]

\* ------------------------------------------------- the sed child process
\* Outcome of a child process: its exit status, the file system it leaves,
\* what it wrote to stdout
Outcome(status, fs, out) == [status |-> status, fs |-> fs, out |-> out]

\* the s command on one line: every (global) or the first leftmost match of
\* the literal text search is replaced
RECURSIVE SubstFrom(_, _, _, _, _)
SubstFrom(line, i, search, replace, global) ==
    IF i > Len(line) THEN <<>>
    ELSE IF HasPrefixAt(line, i, search)
    THEN replace \o (IF global
                     THEN SubstFrom(line, i + Len(search), search, replace, global)
                     ELSE SubSeq(line, i + Len(search), Len(line)))
    ELSE <<line[i]>> \o SubstFrom(line, i + 1, search, replace, global)

\* (sed never gets here with an empty search: it stops with an error)
Subst(line, search, replace, global) ==
    IF search = <<>> THEN line ELSE SubstFrom(line, 1, search, replace, global)

\* sed's reading of the script s<d>regex<d>replacement<d>flags: the
\* delimiter is the character after s; the flags accepted here are none or g
ParseSedScript(script) ==
    IF Len(script) < 2 \/ script[1] # "s"
    THEN [ok |-> FALSE, search |-> <<>>, replace |-> <<>>, global |-> FALSE]
    ELSE LET parts == SplitSeq(SubSeq(script, 3, Len(script)), script[2])
         IN  IF Len(parts) = 3 /\ parts[3] \in {<<>>, <<"g">>}
             THEN [ok |-> TRUE, search |-> parts[1], replace |-> parts[2],
                   global |-> parts[3] = <<"g">>]
             ELSE [ok |-> FALSE, search |-> <<>>, replace |-> <<>>, global |-> FALSE]

\* sed applied to its input files one after the other, from outcome acc on.
\* A file that cannot be read is reported (status 2) and skipped; a file
\* without lines runs no command; an empty regular expression stops sed with
\* status 1 at the first line ("no previous regular expression"), before
\* anything is written.
RECURSIVE SedFiles(_, _, _, _)
SedFiles(parsed, inPlace, inputs, acc) ==
    IF inputs = <<>> THEN acc
    ELSE LET f == Head(inputs)
         IN  IF ~Exists(acc.fs, f)
             THEN SedFiles(parsed, inPlace, Tail(inputs), Outcome(2, acc.fs, acc.out))
             ELSE IF acc.fs[f] = <<>>
             THEN SedFiles(parsed, inPlace, Tail(inputs), acc)
             ELSE IF parsed.search = <<>>
             THEN Outcome(1, acc.fs, acc.out)
             ELSE LET line == Subst(acc.fs[f], parsed.search, parsed.replace,
                                    parsed.global)
                  IN  SedFiles(parsed, inPlace, Tail(inputs),
                               IF inPlace
                               THEN Outcome(acc.status, WriteFile(acc.fs, f, line),
                                            acc.out)
                               ELSE Outcome(acc.status, acc.fs, acc.out \o line))

IsOption(word) == Len(word) > 0 /\ word[1] = "-"

\* the sed program run with the arguments args (argv without "sed"): the
\* words starting with - are options, wherever they stand, and -i is the
\* only one used; the first other word is the script, the rest are the files
RunSed(args, fs) ==
    LET operands == SelectSeq(args, LAMBDA w : ~IsOption(w))
        options  == {args[i] : i \in {j \in 1..Len(args) : IsOption(args[j])}}
    IN  IF options \ {<<"-", "i">>} # {} \/ operands = <<>>
        THEN Outcome(1, fs, <<>>)
        ELSE LET parsed == ParseSedScript(Head(operands))
             IN  IF ~parsed.ok
                 THEN Outcome(1, fs, <<>>)
                 ELSE SedFiles(parsed, <<"-", "i">> \in options, Tail(operands),
                               Outcome(0, fs, <<>>))

\* diff -u a b: status 0 when the two files hold the same content, 1 when
\* they differ, 2 when one cannot be read; nothing is written
RunDiff(args, fs) ==
    LET operands == SelectSeq(args, LAMBDA w : ~IsOption(w))
    IN  IF Len(operands) # 2 \/ \E i \in 1..2 : ~Exists(fs, operands[i])
        THEN Outcome(2, fs, <<>>)
        ELSE Outcome(IF fs[operands[1]] = fs[operands[2]] THEN 0 ELSE 1, fs, <<>>)

\* rm -f paths: every named file is removed, a missing one is no error
RECURSIVE RemoveAll(_, _)
RemoveAll(fs, paths) ==
    IF paths = <<>> THEN fs ELSE RemoveAll(RemoveFile(fs, Head(paths)), Tail(paths))

RunRm(args, fs) ==
    Outcome(0, RemoveAll(fs, SelectSeq(args, LAMBDA w : ~IsOption(w))), <<>>)

\* ---------------------------------------------------------------- sh -c
\* Tokens of a command line: a word, or one of the operators > && ;
Word(chars) == [kind |-> "word", text |-> chars]
Op(chars) == [kind |-> "op", text |-> chars]
SyntaxError == <<Op(<<"syntax error">>)>>

\* The shell's lexer.  Every ' opens or closes a quotation; a character
\* between two quotes is literal; outside quotes a space, > ; and & end the
\* word being read.  A word is a maximal run of other characters, its quotes
\* removed (so '' is an empty word).
Unquoted(line, i) == Cardinality({j \in 1..(i - 1) : line[j] = "'"}) % 2 = 0

IsSeparator(line, i) == line[i] \in {" ", ">", ";", "&"} /\ Unquoted(line, i)

WordAt(line, i) ==
    LET last == CHOOSE e \in i..Len(line) :
                    /\ \A j \in i..e : ~IsSeparator(line, j)
                    /\ (e = Len(line) \/ IsSeparator(line, e + 1))
    IN  Word(SelectSeq(SubSeq(line, i, last), LAMBDA c : c # "'"))

TokenAt(line, i) ==
    IF ~IsSeparator(line, i) THEN WordAt(line, i)
    ELSE IF line[i] = "&" THEN Op(<<"&", "&">>)
    ELSE Op(<<line[i]>>)

ShLex(line) ==
    LET starts == {i \in 1..Len(line) :
                     \/ ~IsSeparator(line, i) /\ (i = 1 \/ IsSeparator(line, i - 1))
                     \/ IsSeparator(line, i) /\ line[i] \in {">", ";"}
                     \/ /\ IsSeparator(line, i) /\ line[i] = "&"
                        /\ i < Len(line) /\ line[i + 1] = "&"
                        /\ (i = 1 \/ line[i - 1] # "&")}
    IN  IF Cardinality({j \in 1..Len(line) : line[j] = "'"}) % 2 = 1
        THEN SyntaxError
        ELSE [k \in 1..Cardinality(starts) |->
                 TokenAt(line, CHOOSE i \in starts :
                                   Cardinality({j \in starts : j <= i}) = k)]

\* the words of a simple command that are not the target of a redirection
CommandWords(tokens) ==
    LET keep == {i \in 1..Len(tokens) :
                    /\ tokens[i].kind = "word"
                    /\ (i = 1 \/ tokens[i - 1] # Op(<<">">>))}
    IN  [k \in 1..Cardinality(keep) |->
            tokens[CHOOSE i \in keep : Cardinality({j \in keep : j <= i}) = k].text]

\* the target of the last > redirection, <<>> (as a set: none) when absent
RedirectTargets(tokens) ==
    {tokens[i].text : i \in {j \in 2..Len(tokens) :
        tokens[j].kind = "word" /\ tokens[j - 1] = Op(<<">">>)}}

\* State of a running shell: the file system, the status of the last
\* command, and every file system state the run went through (trace): a
\* shell killed at its deadline leaves one of them behind.  first is the
\* status of the first command of the line.
ShState(fs, status, trace, first) ==
    [fs |-> fs, status |-> status, trace |-> trace, first |-> first]

\* one simple command: the redirection target is created or truncated, the
\* program runs, its output goes to the target
RunSimple(tokens, st) ==
    LET argv    == CommandWords(tokens)
        targets == RedirectTargets(tokens)
        opened  == IF targets = {} THEN st.fs
                   ELSE WriteFile(st.fs, CHOOSE t \in targets : TRUE, <<>>)
        ran     == IF argv = <<>> THEN Outcome(0, opened, <<>>)
                   ELSE IF Head(argv) = <<"s", "e", "d">> THEN RunSed(Tail(argv), opened)
                   ELSE IF Head(argv) = <<"d", "i", "f", "f">> THEN RunDiff(Tail(argv), opened)
                   ELSE IF Head(argv) = <<"r", "m">> THEN RunRm(Tail(argv), opened)
                   ELSE Outcome(127, opened, <<>>)
        closed  == IF targets = {} THEN ran.fs
                   ELSE WriteFile(ran.fs, CHOOSE t \in targets : TRUE, ran.out)
    IN  ShState(closed, ran.status, st.trace \cup {opened, closed},
                IF st.first = -1 THEN ran.status ELSE st.first)

\* a && b && ...: each command runs only when the one before ended with 0
RECURSIVE RunAndList(_, _, _)
RunAndList(cmds, i, st) ==
    IF i > Len(cmds) \/ (i > 1 /\ st.status # 0) THEN st
    ELSE RunAndList(cmds, i + 1, RunSimple(cmds[i], st))

\* l1 ; l2 ; ...: the lists run one after the other whatever their status
RECURSIVE RunLists(_, _)
RunLists(lists, st) ==
    IF lists = <<>> THEN st
    ELSE RunLists(Tail(lists),
                  RunAndList(SplitSeq(Head(lists), Op(<<"&", "&">>)), 1, st))

\* the tokens of the preview command lines, computed once
PreviewTokens ==
    [line \in {SedPreviewCommand(f, s, r) :
                  f \in SedPaths, s \in SearchPatterns, r \in ReplacePatterns}
        |-> ShLex(line)]

\* sh -c line: a line with an unterminated quote is a syntax error (status
\* 2) and nothing of it runs; otherwise the status is that of the last
\* command that ran
RunSh(line, fs) ==
    LET tokens == IF line \in DOMAIN PreviewTokens THEN PreviewTokens[line]
                  ELSE ShLex(line)
    IN  IF tokens = SyntaxError
        THEN ShState(fs, 2, {fs}, 2)
        ELSE RunLists(SplitSeq(tokens, Op(<<";">>)), ShState(fs, 0, {fs}, -1))

\* ------------------------------------------------------------- executeSed
\* ShellResult; Stdout (the diff text) is not modelled
ShellResult(stderr, exitCode) == [Stderr |-> stderr, ExitCode |-> exitCode]

MustDryRun == "ERROR: Must perform dry-run before applying sed changes."
NoSuchFile == "sed: No such file or directory"
ChildError == "stderr of the child, or err.Error()"

\* mutant: the guard lets every apply through
SedGuardPasses_Open(cache, operationKey, dryRun) == TRUE

\* the guard of an apply: sedDryRunCache[operationKey] must be true
SedGuardPasses(cache, operationKey, dryRun) == dryRun \/ operationKey \in cache

\* result.ExitCode after cmd.Run(): 1 when Run returned an error (a status
\* other than 0, or the child killed at the deadline), else 0
SedExitCode(status, timedOut) == IF timedOut \/ status # 0 THEN 1 ELSE 0

\* mutant: a successful apply leaves the entry in the cache
SedCacheAfter_NoDelete(cache, operationKey, dryRun, exitCode) ==
    IF dryRun /\ exitCode = 0 THEN cache \cup {operationKey} ELSE cache

\* mutant: an apply deletes the entry whatever its exit code
SedCacheAfter_DeleteOnFailure(cache, operationKey, dryRun, exitCode) ==
    IF dryRun /\ exitCode = 0 THEN cache \cup {operationKey}
    ELSE IF ~dryRun THEN cache \ {operationKey}
    ELSE cache

\* mutant: a second dry-run takes the entry away
SedCacheAfter_Toggle(cache, operationKey, dryRun, exitCode) ==
    IF dryRun /\ exitCode = 0
    THEN (IF operationKey \in cache THEN cache \ {operationKey}
          ELSE cache \cup {operationKey})
    ELSE IF ~dryRun /\ exitCode = 0 THEN cache \ {operationKey}
    ELSE cache

\* the cache after the command: a dry-run that ended with 0 sets the entry,
\* an apply that ended with 0 deletes it
SedCacheAfter(cache, operationKey, dryRun, exitCode) ==
    IF dryRun /\ exitCode = 0 THEN cache \cup {operationKey}
    ELSE IF ~dryRun /\ exitCode = 0 THEN cache \ {operationKey}
    ELSE cache

\* What one call of executeSed can do from file system fs and cache: the set
\* of its outcomes [result, fs, cache, ran, child], where ran says whether a
\* child process was started and child is the status of the sed child (-1
\* when none ran or it was killed).  timedOut: the child is killed at the
\* deadline and leaves any of the states it went through.
SedOutcome(result, fs, cache, ran, child) ==
    [result |-> result, fs |-> fs, cache |-> cache, ran |-> ran, child |-> child]

executeSed(filePath, searchPattern, replacePattern, dryRun, timedOut, fs, cache) ==
    LET operationKey == generateSedOperationKey(filePath, searchPattern, replacePattern)
    IN  IF ~SedGuardPasses(cache, operationKey, dryRun)
        THEN {SedOutcome(ShellResult(MustDryRun, 1), fs, cache, FALSE, -1)}
        ELSE IF dryRun /\ ~Exists(fs, filePath)
        THEN {SedOutcome(ShellResult(NoSuchFile, 1), fs, cache, FALSE, -1)}
        ELSE LET sh   == RunSh(SedPreviewCommand(filePath, searchPattern,
                                                 replacePattern), fs)
                 sed  == RunSed(SedApplyArgs(filePath, searchPattern,
                                             replacePattern), fs)
                 status == IF dryRun THEN sh.status ELSE sed.status
                 child  == IF dryRun THEN sh.first ELSE sed.status
                 after  == IF dryRun THEN sh.fs ELSE sed.fs
                 exitCode == SedExitCode(status, timedOut)
                 stderr == IF exitCode # 0 \/ child # 0 THEN ChildError ELSE ""
                 left   == IF ~timedOut THEN {after}
                           ELSE IF dryRun THEN sh.trace ELSE {fs, after}
             IN  {SedOutcome(ShellResult(stderr, exitCode), f,
                             SedCacheAfter(cache, operationKey, dryRun, exitCode),
                             TRUE, IF timedOut THEN -1 ELSE child) : f \in left}

\* ------------------------------------------------------------------ state
VARIABLES
    files,            \* the file system: path -> content
    sedDryRunCache,   \* keys whose entry is true (entries are never false)
    lastCall,         \* the tool call dispatched last and its result
    ops,              \* number of tool calls dispatched so far
    previewed,        \* history: the triples of the dry-runs that returned 0
    applied,          \* history: the triples of the applies that returned 0
    keyIn,            \* two triples handed to generateSedOperationKey
    keyOut,           \* the two keys it returned, <<>> before the calls
    program,          \* which of the two programs runs: "toolSuite", "bashAgent"
    testMode,         \* os.Getenv("TEST_MODE") == "true"
    pc,               \* position of the agent loop
    messages,         \* messages (tool suite), a.conversationMsgs (bash agent)
    contentBlocks,    \* contentBlocks / choice.Message.ToolCalls of the response
    next,             \* index of the block the for loop takes up next
    hasToolUse,       \* hasToolUse / len(choice.Message.ToolCalls) > 0
    alwaysAllowedCommands,  \* alwaysAllowedCommands / a.allowedCommands
    calls,            \* remote calls made so far
    received,         \* content blocks received so far
    executed,         \* the commands handed to exec.Command, in order
    lastPrompt,       \* the prompt shown by the last step and its answer
    dispatched,       \* the blocks of the response the switch has taken up
    exitCode,         \* exit status of the process, -1 while it runs
    attempt,          \* attempt of callWithRetry: the attempt made next
    slept,            \* the delays callWithRetry has slept, in order
    errs,             \* the errors of the attempts made so far, in order
    callResult,       \* what the remote call returned to the loop
    gateLog           \* the calls of the permission gate, and the new instructions

sedVars == <<files, sedDryRunCache, lastCall, ops, previewed, applied>>

keyVars == <<keyIn, keyOut>>

loopVars ==
    <<program, testMode, pc, messages, contentBlocks, next, hasToolUse,
      alwaysAllowedCommands, calls, received, executed, lastPrompt, dispatched,
      exitCode>>

retryVars == <<attempt, slept, errs, callResult>>

gateVars == <<gateLog>>

vars ==
    <<files, sedDryRunCache, lastCall, ops, previewed, applied, keyIn, keyOut,
      program, testMode, pc, messages, contentBlocks, next, hasToolUse,
      alwaysAllowedCommands, calls, received, executed, lastPrompt, dispatched,
      exitCode, attempt, slept, errs, callResult, gateLog>>

\* ------------------------------------------------- inputs of the sed tool
\* block.Input of a sed invocation: dryRun is a JSON value, "absent" when
\* the key is missing
SedInputs ==
    [filePath : SedPaths \cup {Absent},
     searchPattern : SearchPatterns \cup {Absent},
     replacePattern : ReplacePatterns \cup {Absent},
     dryRun : {"true", "false", "absent"}]

\* dryRun, _ := block.Input["dryRun"].(bool): false unless a JSON true
DryRunArg(input) == input.dryRun = "true"

\* the three nested ok checks of case "sed"
SedArgsOk(input) ==
    /\ input.filePath # Absent
    /\ input.searchPattern # Absent
    /\ input.replacePattern # Absent

NoCall ==
    [tool |-> "none", filePath |-> <<>>, searchPattern |-> <<>>,
     replacePattern |-> <<>>, dryRun |-> FALSE, dryRunArg |-> "absent",
     result |-> ShellResult("", 0), ran |-> FALSE, child |-> -1,
     timedOut |-> FALSE, skipped |-> FALSE, entry |-> FALSE]

\* entry: sedDryRunCache[operationKey] as the call found it
SedCall(input, timedOut, o) ==
    [tool |-> "sed", filePath |-> input.filePath,
     searchPattern |-> input.searchPattern,
     replacePattern |-> input.replacePattern, dryRun |-> DryRunArg(input),
     dryRunArg |-> input.dryRun,
     result |-> o.result, ran |-> o.ran, child |-> o.child,
     timedOut |-> timedOut /\ o.ran, skipped |-> FALSE,
     entry |-> generateSedOperationKey(input.filePath, input.searchPattern,
                                       input.replacePattern) \in sedDryRunCache]

\* the files a test or a session starts with: the target a, with or
\* without a file already at the scratch path a.tmp
InitialFiles ==
    { [p \in {<<"a">>} |-> <<"a", "|">>],
      [p \in {<<"a">>, TempFile(<<"a">>)} |-> <<"a", "|">>] }

Triple(call) == <<call.filePath, call.searchPattern, call.replacePattern>>

KeyIdle == keyIn = <<>> /\ keyOut = <<>>

NoPrompt == [command |-> <<>>, answer |-> "", shown |-> FALSE]

Nil == [kind |-> "nil", status |-> 0]
NotCalled == [returned |-> FALSE, err |-> Nil]

\* no remote call is under way
GateIdle == gateLog = <<>>

RetryIdle ==
    /\ attempt = 0
    /\ slept = <<>>
    /\ errs = <<>>
    /\ callResult = NotCalled

\* no agent loop is running
LoopIdle ==
    /\ program = "none"
    /\ exitCode = -1
    /\ testMode = FALSE
    /\ pc = "idle"
    /\ messages = <<>>
    /\ contentBlocks = <<>>
    /\ next = 1
    /\ hasToolUse = FALSE
    /\ alwaysAllowedCommands = {}
    /\ calls = 0
    /\ received = 0
    /\ executed = <<>>
    /\ lastPrompt = NoPrompt
    /\ dispatched = <<>>

SedInit ==
    /\ files \in InitialFiles
    /\ sedDryRunCache = {}
    /\ lastCall = NoCall
    /\ ops = 0
    /\ previewed = {}
    /\ applied = {}
    /\ KeyIdle
    /\ LoopIdle
    /\ RetryIdle
    /\ GateIdle

\* case "sed" of runAgentLoop with a complete input: executeSed runs
DispatchSed ==
    /\ ops < MaxOps
    /\ \E input \in SedInputs, timedOut \in BOOLEAN :
          /\ SedArgsOk(input)
          /\ \E o \in executeSed(input.filePath, input.searchPattern,
                                 input.replacePattern, DryRunArg(input),
                                 timedOut, files, sedDryRunCache) :
                /\ files' = o.fs
                /\ sedDryRunCache' = o.cache
                /\ lastCall' = SedCall(input, timedOut, o)
    /\ previewed' = IF lastCall'.dryRun /\ lastCall'.result.ExitCode = 0
                    THEN previewed \cup {Triple(lastCall')} ELSE previewed
    /\ applied' = IF ~lastCall'.dryRun /\ lastCall'.result.ExitCode = 0
                  THEN applied \cup {Triple(lastCall')} ELSE applied
    /\ ops' = ops + 1
    /\ UNCHANGED <<keyVars, loopVars, retryVars, gateVars>>

\* case "sed" of runAgentLoop with a required string missing: the
\* invocation is skipped
SkipSed ==
    /\ ops < MaxOps
    /\ \E input \in SedInputs : ~SedArgsOk(input)
    /\ lastCall' = [NoCall EXCEPT !.tool = "sed", !.skipped = TRUE]
    /\ ops' = ops + 1
    /\ UNCHANGED <<files, sedDryRunCache, previewed, applied, keyVars, loopVars, retryVars, gateVars>>

\* another tool of the loop (shellCommand, todo, comby, gofmt) rewrites or
\* removes the target file
DispatchOther ==
    /\ ops < MaxOps
    /\ \/ files' = WriteFile(files, <<"a">>, <<"|", "a">>)
       \/ files' = RemoveFile(files, <<"a">>)
    /\ lastCall' = [NoCall EXCEPT !.tool = "shellCommand", !.ran = TRUE]
    /\ ops' = ops + 1
    /\ UNCHANGED <<sedDryRunCache, previewed, applied, keyVars, loopVars, retryVars, gateVars>>

SedNext == DispatchSed \/ SkipSed \/ DispatchOther

SedSpec == SedInit /\ [][SedNext]_vars

\* ------------------------------------- generateSedOperationKey, in isolation
\* every triple of strings of at most MaxKeyLen characters
KeyTriples == StrUpTo(MaxKeyLen) \X StrUpTo(MaxKeyLen) \X StrUpTo(MaxKeyLen)

SedIdle ==
    /\ files = [p \in {} |-> <<>>]
    /\ sedDryRunCache = {}
    /\ lastCall = NoCall
    /\ ops = 0
    /\ previewed = {}
    /\ applied = {}

KeyInit ==
    /\ keyIn \in KeyTriples \X KeyTriples
    /\ keyOut = <<>>
    /\ SedIdle
    /\ LoopIdle
    /\ RetryIdle
    /\ GateIdle

\* key1 := generateSedOperationKey(...); key2 := generateSedOperationKey(...)
ComputeKeys ==
    /\ keyOut = <<>>
    /\ keyOut' = <<generateSedOperationKey(keyIn[1][1], keyIn[1][2], keyIn[1][3]),
                   generateSedOperationKey(keyIn[2][1], keyIn[2][2], keyIn[2][3])>>
    /\ UNCHANGED <<keyIn, sedVars, loopVars, retryVars, gateVars>>

KeyNext == ComputeKeys

KeySpec == KeyInit /\ [][KeyNext]_vars

\* =========================================================== agent loops
\* Two programs: the tool-suite loop, runAgentLoop(initialPrompt), and the
\* bash agent, (a *AgentState) runAgentLoop().

\* ------------------------------------------------------------- bounds
\* remote calls in one behaviour
MaxCalls == 2
\* content blocks (texts and tool invocations) received in one behaviour,
\* over all responses
MaxBlocks == 2

\* ------------------------------------------------------ JSON arguments
JString(s) == [type |-> "string", val |-> s]
JNumber == [type |-> "number", val |-> <<>>]
NoInput == [k \in {} |-> JNumber]

\* v, ok := block.Input[key].(string)
HasString(input, key) == key \in DOMAIN input /\ input[key].type = "string"

\* ------------------------------------------------------ shell commands
\* strings.Fields: the maximal runs of characters other than white space
Fields(command) == SelectSeq(SplitSeq(command, " "), LAMBDA w : w # <<>>)

Commands == {<<>>, <<"x", " ", "y">>, <<"y">>}

\* ------------------------------------------- promptForCommandExecution
\* What the operator types at the prompt of the tool-suite loop
\* ("" is what a failed fmt.Scanln leaves in response)
Answers == {"y", "n", "i", "a", "maybe", ""}

AnswerAllows_Instruct(answer) ==
    answer \in {"y", "yes", "a", "always", "i", "instruct"}

\* the switch on strings.ToLower(response): the answers that let the
\* command run
AnswerAllows(answer) == answer \in {"y", "yes", "a", "always"}

AnswerAlways_AlsoNo(answer) == answer \in {"a", "always", "n", "no"}

\* the answers that add the binary to alwaysAllowedCommands
AnswerAlways(answer) == answer \in {"a", "always"}

\* Outcome of promptForCommandExecution(command): panic (the index
\* expression strings.Fields(command)[0] on a command without fields),
\* the returned bool, the allow-list after the call, and whether the
\* operator was asked.  answer is what the operator types when asked.
GateOutcome(panic, ok, allowed, prompted) ==
    [panic |-> panic, ok |-> ok, allowed |-> allowed, prompted |-> prompted]

\* mutant: allow-once is remembered as well
promptForCommandExecution_OnceRemembers(command, test, allowed, answer) ==
    IF test THEN GateOutcome(FALSE, TRUE, allowed, FALSE)
    ELSE IF Fields(command) = <<>> THEN GateOutcome(TRUE, FALSE, allowed, FALSE)
    ELSE LET binary == Fields(command)[1]
         IN  IF binary \in allowed THEN GateOutcome(FALSE, TRUE, allowed, FALSE)
             ELSE GateOutcome(FALSE, AnswerAllows(answer),
                              IF AnswerAllows(answer) THEN allowed \cup {binary}
                              ELSE allowed,
                              TRUE)

promptForCommandExecution(command, test, allowed, answer) ==
    IF test THEN GateOutcome(FALSE, TRUE, allowed, FALSE)
    ELSE IF Fields(command) = <<>> THEN GateOutcome(TRUE, FALSE, allowed, FALSE)
    ELSE LET binary == Fields(command)[1]
         IN  IF binary \in allowed THEN GateOutcome(FALSE, TRUE, allowed, FALSE)
             ELSE GateOutcome(FALSE, AnswerAllows(answer),
                              IF AnswerAlways(answer) THEN allowed \cup {binary}
                              ELSE allowed,
                              TRUE)

Cancelled == "Command execution cancelled by user"

\* ----------------------------------------------------- handleBashCommand
\* What the operator selects in the bash agent; "error" is a failed
\* selection (Run returned an error), "other" a value outside the options
Choices == {"yes", "no", "always", "instruct", "error", "other"}

\* the alternative instruction typed after "instruct": a text, only white
\* space, or a failed input
Instructions == {<<"d", "o">>, <<" ">>, <<"e", "r", "r">>}
InstructionError == <<"e", "r", "r">>

\* the choices after which handleBashCommand goes on to exec.Command
ChoiceRuns(choice) == choice \in {"yes", "always"}

BashOutcome(panic, run, allowed, prompted, reply, inject) ==
    [panic |-> panic, run |-> run, allowed |-> allowed, prompted |-> prompted,
     reply |-> reply, inject |-> inject]

\* handleBashCommand up to exec.Command: panic, whether the command is
\* run, the allow-list, whether the operator was asked, the string returned
\* when the command is not run, and the user message appended (<<>>: none)
handleBashCommand(command, allowed, choice, instruction) ==
    IF Fields(command) = <<>>
    THEN BashOutcome(TRUE, FALSE, allowed, FALSE, "", <<>>)
    ELSE LET baseCommand == Fields(command)[1]
         IN  IF baseCommand \in allowed
             THEN BashOutcome(FALSE, TRUE, allowed, FALSE, "", <<>>)
             ELSE IF choice = "error"
             THEN BashOutcome(FALSE, FALSE, allowed, TRUE,
                              "Permission denied - selection error", <<>>)
             ELSE IF choice = "yes"
             THEN BashOutcome(FALSE, ChoiceRuns(choice), allowed, TRUE, "", <<>>)
             ELSE IF choice = "no"
             THEN BashOutcome(FALSE, FALSE, allowed, TRUE,
                              "Permission denied by user", <<>>)
             ELSE IF choice = "always"
             THEN BashOutcome(FALSE, ChoiceRuns(choice),
                              allowed \cup {baseCommand}, TRUE, "", <<>>)
             ELSE IF choice = "instruct"
             THEN IF instruction = InstructionError \/ Fields(instruction) = <<>>
                  THEN BashOutcome(FALSE, FALSE, allowed, TRUE,
                         "Permission denied - no alternative instructions provided",
                         <<>>)
                  ELSE BashOutcome(FALSE, FALSE, allowed, TRUE,
                         "User provided alternative instructions", instruction)
             ELSE BashOutcome(FALSE, FALSE, allowed, TRUE,
                              "Permission denied - invalid response", <<>>)

\* --------------------------------------------------- executeShellCommand
\* what the child process does: it exits with status 0, it fails (non-zero
\* status, or it cannot be started), or it does not finish by itself
Children == {"exits", "fails", "hangs"}

\* a child exists only if the gate lets the command run
ChildrenOf(command, test, allowed, answer) ==
    LET gate == promptForCommandExecution(command, test, allowed, answer)
    IN  IF ~gate.panic /\ gate.ok THEN Children ELSE {"exits"}

BashChildrenOf(command, allowed, choice, instruction) ==
    IF handleBashCommand(command, allowed, choice, instruction).run
    THEN Children ELSE {"exits"}

\* the instruction is read only after the choice "instruct"
InstructionsOf(choice) ==
    IF choice = "instruct" THEN Instructions ELSE {<<>>}

ExecOutcome(panic, ran, result, allowed, prompted) ==
    [panic |-> panic, ran |-> ran, result |-> result, allowed |-> allowed,
     prompted |-> prompted]

\* executeShellCommand(command, 10s): the gate, then sh -c command.
\* childFails is whether cmd.Run returns an error (non-zero exit, timeout).
executeShellCommand(command, test, allowed, answer, childFails) ==
    LET gate == promptForCommandExecution(command, test, allowed, answer)
    IN  IF gate.panic
        THEN ExecOutcome(TRUE, FALSE, ShellResult("", 0), allowed, FALSE)
        ELSE IF ~gate.ok
        THEN ExecOutcome(FALSE, FALSE, ShellResult(Cancelled, 1),
                         gate.allowed, gate.prompted)
        ELSE ExecOutcome(FALSE, TRUE,
                         IF childFails THEN ShellResult(ChildError, 1)
                         ELSE ShellResult("", 0),
                         gate.allowed, gate.prompted)

\* the rest of handleBashCommand: bash -c command and the returned string
BashResult(outcome, childFails) ==
    IF ~outcome.run THEN outcome.reply
    ELSE IF childFails THEN "Command failed: ..." ELSE "output"

\* ---------------------------------------------------------------- messages
NoId == <<>>
NoResult == "none"

Message(role, kind, text, blocks, id, content) ==
    [role |-> role, kind |-> kind, text |-> text, blocks |-> blocks,
     id |-> id, content |-> content]

\* kind: "prompt" the instruction the run starts with, "nudge" the reminder
\* to call a tool, "instruction" the operator's alternative instruction
UserMessage(kind, text) == Message("user", kind, text, <<>>, NoId, NoResult)

SystemMessage == Message("system", "text", "system prompt", <<>>, NoId, NoResult)

AssistantMessage(text, blocks) ==
    Message("assistant", "blocks", text, blocks, NoId, NoResult)

ToolResultMessage_NoId(role, id, content) ==
    Message(role, "tool_result", "", <<>>, NoId, content)

\* Message{Role: "user", Content: []ToolResult{...}} in the tool suite,
\* openai.ToolMessage(result, toolCall.ID) in the bash agent
ToolResultMessage(role, id, content) ==
    Message(role, "tool_result", "", <<>>, id, content)

NudgeToolSuite == "Call a tool to continue the task"
NudgeBashAgent == "You must use either the 'bash' tool ... or the 'finish' tool"

\* ------------------------------------------------------------ the response
TextBlock(text) ==
    [type |-> "text", text |-> text, id |-> NoId, name |-> "", input |-> NoInput]

ToolUse(id, name, input) ==
    [type |-> "tool_use", text |-> "", id |-> id, name |-> name, input |-> input]

\* toolCall.Function.Arguments that is not the JSON of an object
Malformed == [k \in {"<malformed>"} |-> JNumber]

\* json.Unmarshal([]byte(toolCall.Function.Arguments), &args), error dropped
ParseArguments(arguments) == IF arguments = Malformed THEN NoInput ELSE arguments

convertChoiceToContentBlocks(choice) ==
    (IF choice.content # "" THEN <<TextBlock(choice.content)>> ELSE <<>>)
    \o [i \in 1..Len(choice.toolCalls) |->
          ToolUse(choice.toolCalls[i].id, choice.toolCalls[i].name,
                  ParseArguments(choice.toolCalls[i].arguments))]

\* the tool calls of the bash agent, taken as they come
ToolCallBlocks(choice) ==
    [i \in 1..Len(choice.toolCalls) |->
          ToolUse(choice.toolCalls[i].id, choice.toolCalls[i].name,
                  choice.toolCalls[i].arguments)]

\* json.Unmarshal into BashArgs: an error for malformed JSON or a command
\* that is not a string, the empty string for a missing command
BashArgsError(arguments) ==
    \/ arguments = Malformed
    \/ "command" \in DOMAIN arguments /\ arguments["command"].type # "string"

BashArgsCommand(arguments) ==
    IF "command" \in DOMAIN arguments THEN arguments["command"].val ELSE <<>>

\* the cases of the switch of the tool suite and the string each requires
RequiredArgument ==
    [shellCommand |-> {"command"}, goDoc |-> {"packageOrSymbol"},
     ripgrep |-> {"pattern"},
     sed |-> {"filePath", "searchPattern", "replacePattern"},
     todo |-> {"action"}, comby |-> {"matchTemplate"}, ask |-> {"question"}]

HasStrings_Any(input, keys) == \E key \in keys : HasString(input, key)

\* every one of the type assertions of the case succeeds
HasStrings(input, keys) == \A key \in keys : HasString(input, key)

\* the case that needs no argument
NoArgumentTools == {"gofmt"}

\* ------------------------------------------------- what the remote side sends
CommandInput(command) == [k \in {"command"} |-> JString(command)]

Invocations(prog) ==
    IF prog = "toolSuite"
    THEN [name : {"shellCommand"},
          arguments : {CommandInput(c) : c \in Commands} \cup {NoInput}]
         \cup [name : {"goDoc"},
               arguments : {[k \in {"packageOrSymbol"} |-> JString(<<"p">>)]}]
         \cup [name : {"sed"},
               arguments : {[filePath |-> JString(<<"a">>),
                             searchPattern |-> JNumber]}]
         \cup [name : {"finished", "deploy"}, arguments : {NoInput}]
    ELSE [name : {"bash"},
          arguments : {CommandInput(c) : c \in Commands}
                      \cup {NoInput, Malformed}]
         \cup [name : {"finish", "deploy"}, arguments : {NoInput}]

\* the tool calls of one response: at most n of them, the i-th of call c
\* carrying the identifier <<c, i>>
ToolCallsUpTo(prog, c, n) ==
    UNION { { [i \in 1..m |->
                 [id |-> <<c, i>>, name |-> f[i].name,
                  arguments |-> f[i].arguments]] :
              f \in [1..m -> Invocations(prog)] } : m \in 0..n }

\* choice.Message.Content: the tool suite turns a text into a block of its
\* own; the bash agent only prints the text of a response without tool calls
Contents(prog, toolCalls) ==
    IF prog = "toolSuite" THEN {"", "text"}
    ELSE IF toolCalls = <<>> THEN {"text"} ELSE {""}

\* ------------------------------------------------- the outbound request
ChatMessage(role, content, toolCalls, toolCallId) ==
    [role |-> role, content |-> content, toolCalls |-> toolCalls,
     toolCallId |-> toolCallId]

\* json.Marshal(block.Input), kept as the value it encodes
Marshal(input) == <<"json", input>>

\* the tool_use blocks of an assistant message as ToolCall values
ChatToolCalls(blocks) ==
    LET T == SelectSeq(blocks, LAMBDA b : b.type = "tool_use")
    IN  [i \in 1..Len(T) |->
            [id |-> T[i].id, name |-> T[i].name,
             arguments |-> Marshal(T[i].input)]]

\* strings.Join(parts, sep)
RECURSIVE Join(_, _)
Join(parts, sep) ==
    IF parts = <<>> THEN ""
    ELSE IF Len(parts) = 1 THEN parts[1]
    ELSE parts[1] \o sep \o Join(Tail(parts), sep)

\* the text of an assistant chat message: strings.Join(textParts, "\n"),
\* nothing when the message has no text block
ChatText(blocks) ==
    LET T == SelectSeq(blocks, LAMBDA b : b.type = "text")
    IN  Join([i \in 1..Len(T) |-> T[i].text], "\n")

\* the chat messages one internal message turns into
ChatOf(msg) ==
    IF msg.role = "user" /\ msg.kind = "tool_result"
    THEN <<ChatMessage("tool", msg.content, <<>>, msg.id)>>
    ELSE IF msg.role = "user"
    THEN <<ChatMessage("user", msg.text, <<>>, NoId)>>
    ELSE IF msg.role = "assistant"
    THEN <<ChatMessage("assistant", ChatText(msg.blocks),
                       ChatToolCalls(msg.blocks), NoId)>>
    ELSE <<>>

RECURSIVE ChatFrom(_, _)
ChatFrom(msgs, i) ==
    IF i > Len(msgs) THEN <<>> ELSE ChatOf(msgs[i]) \o ChatFrom(msgs, i + 1)

\* convertMessagesToChat(messages, systemPrompt)
convertMessagesToChat(msgs) ==
    <<ChatMessage("system", "system prompt", <<>>, NoId)>> \o ChatFrom(msgs, 1)

\* the Messages of the bash agent's request: a.conversationMsgs as it is
ConversationParams(msgs) ==
    [i \in 1..Len(msgs) |->
        ChatMessage(msgs[i].role,
                    IF msgs[i].kind = "tool_result" THEN msgs[i].content
                    ELSE msgs[i].text,
                    ChatToolCalls(msgs[i].blocks), msgs[i].id)]

\* request.Messages / params.Messages of the remote call made from here
RequestMessages ==
    IF program = "toolSuite" THEN convertMessagesToChat(messages)
    ELSE ConversationParams(messages)

\* ------------------------------------------------------ the loops' steps
\* pc: "call" before the remote call, "dispatch" inside the for loop over
\* the blocks, "success" after finished, "error" after a failed call,
\* "panic" after a run-time panic (no recover: the process is gone),
\* "blocked" while the handler waits for a child that does not finish

LoopInit ==
    /\ program \in {"toolSuite", "bashAgent"}
    /\ testMode \in (IF program = "toolSuite" THEN BOOLEAN ELSE {FALSE})
    /\ pc = "call"
    /\ messages = IF program = "toolSuite"
                  THEN <<UserMessage("prompt", "initialPrompt")>>
                  ELSE <<SystemMessage, UserMessage("prompt", "instruction")>>
    /\ contentBlocks = <<>>
    /\ next = 1
    /\ hasToolUse = FALSE
    /\ alwaysAllowedCommands = {}
    /\ calls = 0
    /\ received = 0
    /\ executed = <<>>
    /\ lastPrompt = NoPrompt
    /\ dispatched = <<>>
    /\ exitCode = -1
    /\ SedIdle
    /\ KeyIdle
    /\ RetryIdle
    /\ GateIdle

Block == contentBlocks[next]

InLoop == pc = "dispatch" /\ next <= Len(contentBlocks)

IsToolUse(prog, name) ==
    /\ program = prog
    /\ InLoop
    /\ Block.type = "tool_use"
    /\ Block.name = name

\* callOpenAIAPI / callWithRetry returns an error

\* a failing call that still appends an assistant message
CallFails_Appends ==
    /\ pc = "call"
    /\ calls < MaxCalls
    /\ calls' = calls + 1
    /\ pc' = "error"
    /\ messages' = Append(messages, AssistantMessage("", <<>>))
    /\ UNCHANGED <<program, testMode, contentBlocks, next, hasToolUse,
                   alwaysAllowedCommands, received, executed, lastPrompt,
                   dispatched>>
    /\ exitCode' = IF program = "toolSuite" THEN 1 ELSE exitCode
    /\ UNCHANGED <<sedVars, keyVars, retryVars, gateVars>>

CallFails ==
    /\ pc = "call"
    /\ calls < MaxCalls
    /\ calls' = calls + 1
    /\ pc' = "error"
    /\ UNCHANGED <<program, testMode, messages, contentBlocks, next, hasToolUse,
                   alwaysAllowedCommands, received, executed, lastPrompt,
                   dispatched>>
    \* main: log.Fatal("Error:", err) in the tool suite; the bash agent logs
    \* the error and returns to main's loop
    /\ exitCode' = IF program = "toolSuite" THEN 1 ELSE exitCode
    /\ UNCHANGED <<sedVars, keyVars, retryVars, gateVars>>

\* the bash agent gets a response without choices
CallReturnsNoChoice ==
    /\ program = "bashAgent"
    /\ pc = "call"
    /\ calls < MaxCalls
    /\ calls' = calls + 1
    /\ pc' = "error"
    /\ UNCHANGED <<program, testMode, messages, contentBlocks, next, hasToolUse,
                   alwaysAllowedCommands, received, executed, lastPrompt,
                   dispatched>>
    /\ UNCHANGED <<sedVars, keyVars, retryVars, gateVars, exitCode>>

\* the remote call returns a choice: the assistant message is appended
\* and the for loop over its blocks starts.  (A response without choices
\* leaves the tool suite with no blocks, like an empty choice.)
CallReturns ==
    /\ pc = "call"
    /\ calls < MaxCalls
    /\ calls' = calls + 1
    /\ \E toolCalls \in ToolCallsUpTo(program, calls + 1, MaxBlocks - received) :
       \E content \in Contents(program, toolCalls) :
          LET choice == [content |-> content, toolCalls |-> toolCalls]
          IN  /\ contentBlocks' = IF program = "toolSuite"
                                  THEN convertChoiceToContentBlocks(choice)
                                  ELSE ToolCallBlocks(choice)
              /\ messages' = Append(messages,
                                AssistantMessage(content, contentBlocks'))
              /\ hasToolUse' = (program = "bashAgent" /\ toolCalls # <<>>)
              /\ received' = received + Len(contentBlocks')
              /\ received' <= MaxBlocks
    /\ next' = 1
    /\ dispatched' = <<>>
    /\ lastPrompt' = NoPrompt
    /\ pc' = "dispatch"
    /\ UNCHANGED <<program, testMode, alwaysAllowedCommands, executed>>
    /\ UNCHANGED <<sedVars, keyVars, retryVars, gateVars, exitCode>>

\* if block.Type == "text" { ...; continue }
ToolSuiteText ==
    /\ program = "toolSuite"
    /\ InLoop
    /\ Block.type = "text"
    /\ next' = next + 1
    /\ lastPrompt' = NoPrompt
    /\ UNCHANGED <<program, testMode, pc, messages, contentBlocks, hasToolUse,
                   alwaysAllowedCommands, calls, received, executed, dispatched>>
    /\ UNCHANGED <<sedVars, keyVars, retryVars, gateVars, exitCode>>

\* case "shellCommand" with a command string
ToolSuiteShellCommand ==
    /\ IsToolUse("toolSuite", "shellCommand")
    /\ HasString(Block.input, "command")
    /\ hasToolUse' = TRUE
    /\ dispatched' = Append(dispatched, next)
    /\ \E answer \in Answers :
       \E child \in ChildrenOf(Block.input["command"].val, testMode,
                               alwaysAllowedCommands, answer) :
          \* a child that hangs is killed at the deadline: cmd.Run fails
          LET cmd == Block.input["command"].val
              o == executeShellCommand(cmd, testMode, alwaysAllowedCommands,
                                       answer, child # "exits")
          IN  IF o.panic
              THEN /\ pc' = "panic"
                   /\ lastPrompt' = NoPrompt
                   /\ UNCHANGED <<messages, next, alwaysAllowedCommands,
                                  executed>>
              ELSE /\ pc' = pc
                   /\ alwaysAllowedCommands' = o.allowed
                   /\ lastPrompt' = IF o.prompted
                                    THEN [command |-> cmd, answer |-> answer,
                                          shown |-> TRUE]
                                    ELSE NoPrompt
                   /\ executed' = IF o.ran THEN Append(executed, cmd)
                                  ELSE executed
                   /\ messages' = Append(messages,
                                     ToolResultMessage("user", Block.id, o.result))
                   /\ next' = next + 1
    /\ UNCHANGED <<program, testMode, contentBlocks, calls, received>>
    /\ exitCode' = IF pc' = "panic" THEN 2 ELSE exitCode
    /\ UNCHANGED <<sedVars, keyVars, retryVars, gateVars>>

\* the other cases that run a tool handler: the handler's result is
\* appended (the handlers themselves are outside this specification)
ToolSuiteTool ==
    /\ program = "toolSuite"
    /\ InLoop
    /\ Block.type = "tool_use"
    /\ \/ /\ Block.name \in DOMAIN RequiredArgument \ {"shellCommand"}
          /\ HasStrings(Block.input, RequiredArgument[Block.name])
       \/ Block.name \in NoArgumentTools
    /\ hasToolUse' = TRUE
    /\ dispatched' = Append(dispatched, next)
    /\ \E result \in {ShellResult("", 0), ShellResult(ChildError, 1)} :
          messages' = Append(messages, ToolResultMessage("user", Block.id, result))
    /\ next' = next + 1
    /\ lastPrompt' = NoPrompt
    /\ UNCHANGED <<program, testMode, pc, contentBlocks, alwaysAllowedCommands,
                   calls, received, executed>>
    /\ UNCHANGED <<sedVars, keyVars, retryVars, gateVars, exitCode>>

\* a case whose required string is missing, or a name without a case (the
\* switch has no default): nothing is run and nothing is appended
ToolSuiteSkip ==
    /\ program = "toolSuite"
    /\ InLoop
    /\ Block.type = "tool_use"
    /\ \/ /\ Block.name \in DOMAIN RequiredArgument
          /\ ~HasStrings(Block.input, RequiredArgument[Block.name])
       \/ Block.name \notin DOMAIN RequiredArgument \cup NoArgumentTools
                             \cup {"finished"}
    /\ hasToolUse' = TRUE
    /\ dispatched' = Append(dispatched, next)
    /\ next' = next + 1
    /\ lastPrompt' = NoPrompt
    /\ UNCHANGED <<program, testMode, pc, messages, contentBlocks,
                   alwaysAllowedCommands, calls, received, executed>>
    /\ UNCHANGED <<sedVars, keyVars, retryVars, gateVars, exitCode>>

\* case "finished": return nil
ToolSuiteFinished ==
    /\ IsToolUse("toolSuite", "finished")
    /\ hasToolUse' = TRUE
    /\ dispatched' = Append(dispatched, next)
    /\ pc' = "success"
    /\ lastPrompt' = NoPrompt
    /\ UNCHANGED <<program, testMode, messages, contentBlocks, next,
                   alwaysAllowedCommands, calls, received, executed>>
    \* main returns
    /\ exitCode' = 0
    /\ UNCHANGED <<sedVars, keyVars, retryVars, gateVars>>

\* case "bash" with arguments that parse
BashAgentBash ==
    /\ IsToolUse("bashAgent", "bash")
    /\ ~BashArgsError(Block.input)
    /\ dispatched' = Append(dispatched, next)
    /\ \E choice \in Choices :
       \E instruction \in InstructionsOf(choice) :
       \E child \in BashChildrenOf(BashArgsCommand(Block.input),
                                   alwaysAllowedCommands, choice, instruction) :
          LET cmd == BashArgsCommand(Block.input)
              o == handleBashCommand(cmd, alwaysAllowedCommands, choice,
                                     instruction)
              childFails == child = "fails"
          IN  IF o.panic
              THEN /\ pc' = "panic"
                   /\ lastPrompt' = NoPrompt
                   /\ UNCHANGED <<messages, next, alwaysAllowedCommands,
                                  executed>>
              ELSE IF o.run /\ child = "hangs"
              \* cmd.CombinedOutput() has no deadline: it does not return
              THEN /\ pc' = "blocked"
                   /\ alwaysAllowedCommands' = o.allowed
                   /\ lastPrompt' = IF o.prompted
                                    THEN [command |-> cmd, answer |-> choice,
                                          shown |-> TRUE]
                                    ELSE NoPrompt
                   /\ executed' = Append(executed, cmd)
                   /\ UNCHANGED <<messages, next>>
              ELSE /\ pc' = pc
                   /\ alwaysAllowedCommands' = o.allowed
                   /\ lastPrompt' = IF o.prompted
                                    THEN [command |-> cmd, answer |-> choice,
                                          shown |-> TRUE]
                                    ELSE NoPrompt
                   /\ executed' = IF o.run THEN Append(executed, cmd)
                                  ELSE executed
                   /\ messages' =
                        Append(IF o.inject = <<>> THEN messages
                               ELSE Append(messages,
                                           UserMessage("instruction", o.inject)),
                               ToolResultMessage("tool", Block.id,
                                                 BashResult(o, childFails)))
                   /\ next' = next + 1
    /\ UNCHANGED <<program, testMode, contentBlocks, hasToolUse, calls, received>>
    /\ exitCode' = IF pc' = "panic" THEN 2 ELSE exitCode
    /\ UNCHANGED <<sedVars, keyVars, retryVars, gateVars>>

\* case "bash" with arguments that do not parse (continue), and default
\* (the unknown tool is logged)
BashAgentSkip ==
    /\ program = "bashAgent"
    /\ InLoop
    /\ \/ Block.name = "bash" /\ BashArgsError(Block.input)
       \/ Block.name \notin {"bash", "finish"}
    /\ dispatched' = Append(dispatched, next)
    /\ next' = next + 1
    /\ lastPrompt' = NoPrompt
    /\ UNCHANGED <<program, testMode, pc, messages, contentBlocks, hasToolUse,
                   alwaysAllowedCommands, calls, received, executed>>
    /\ UNCHANGED <<sedVars, keyVars, retryVars, gateVars, exitCode>>

\* case "finish": return
BashAgentFinish ==
    /\ IsToolUse("bashAgent", "finish")
    /\ dispatched' = Append(dispatched, next)
    /\ pc' = "success"
    /\ lastPrompt' = NoPrompt
    /\ UNCHANGED <<program, testMode, messages, contentBlocks, next, hasToolUse,
                   alwaysAllowedCommands, calls, received, executed>>
    /\ UNCHANGED <<sedVars, keyVars, retryVars, gateVars, exitCode>>

Nudged_Never(msgs, used, prog) == msgs

\* if !hasToolUse { messages = append(messages, <the reminder>) }
Nudged(msgs, used, prog) ==
    IF used THEN msgs
    ELSE Append(msgs, UserMessage("nudge", IF prog = "toolSuite"
                                           THEN NudgeToolSuite
                                           ELSE NudgeBashAgent))

\* the for loop is over: the reminder is appended when the response had
\* no tool invocation, and the loop goes round
EndTurn ==
    /\ pc = "dispatch"
    /\ next > Len(contentBlocks)
    /\ messages' = Nudged(messages, hasToolUse, program)
    /\ pc' = "call"
    /\ lastPrompt' = NoPrompt
    /\ UNCHANGED <<program, testMode, contentBlocks, next, hasToolUse,
                   alwaysAllowedCommands, calls, received, executed, dispatched>>
    /\ UNCHANGED <<sedVars, keyVars, retryVars, gateVars, exitCode>>

\* mutant: the new instruction is appended to the old conversation
NewInstruction_KeepsHistory ==
    /\ program = "bashAgent"
    /\ pc \in {"success", "error"}
    /\ calls < MaxCalls
    /\ messages' = Append(messages, UserMessage("prompt", "instruction"))
    /\ contentBlocks' = <<>>
    /\ next' = 1
    /\ hasToolUse' = FALSE
    /\ dispatched' = <<>>
    /\ lastPrompt' = NoPrompt
    /\ pc' = "call"
    /\ UNCHANGED <<program, testMode, alwaysAllowedCommands, calls, received,
                   executed>>
    /\ UNCHANGED <<sedVars, keyVars, retryVars, gateVars, exitCode>>

\* main of the bash agent: after runAgentLoop returns, the next instruction
\* starts a fresh conversation; a.allowedCommands stays
NewInstruction ==
    /\ program = "bashAgent"
    /\ pc \in {"success", "error"}
    /\ calls < MaxCalls
    /\ messages' = <<SystemMessage, UserMessage("prompt", "instruction")>>
    /\ contentBlocks' = <<>>
    /\ next' = 1
    /\ hasToolUse' = FALSE
    /\ dispatched' = <<>>
    /\ lastPrompt' = NoPrompt
    /\ pc' = "call"
    /\ UNCHANGED <<program, testMode, alwaysAllowedCommands, calls, received,
                   executed>>
    /\ UNCHANGED <<sedVars, keyVars, retryVars, gateVars, exitCode>>

LoopNext ==
    \/ CallFails
    \/ CallReturnsNoChoice
    \/ CallReturns
    \/ ToolSuiteText
    \/ ToolSuiteShellCommand
    \/ ToolSuiteTool
    \/ ToolSuiteSkip
    \/ ToolSuiteFinished
    \/ BashAgentBash
    \/ BashAgentSkip
    \/ BashAgentFinish
    \/ EndTurn
    \/ NewInstruction

LoopSpec == LoopInit /\ [][LoopNext]_vars

\* ============================================================ remote call
\* The bash agent calls the service through callWithRetry; the tool suite
\* calls callOpenAIAPI once.  Durations are counted in seconds.

maxRetries == 10
baseDelay == 1

\* ----------------------------------------------------------------- errors
\* *openai.Error: the service answered with a status other than 2xx
APIError(status) == [kind |-> "api", status |-> status]
\* fmt.Errorf("API request failed with status %d: %s", ...): a plain error
StatusError(status) == [kind |-> "errorf", status |-> status]
\* an error value that carries no status: the service is unreachable, the
\* credential is missing, the response cannot be decoded
PlainError(kind) == [kind |-> kind, status |-> 0]

Statuses == {400, 499, 500, 599, 600}
PlainErrors == {PlainError(k) : k \in {"unreachable", "credential", "malformed"}}

\* what a.client.Chat.Completions.New can hand to callWithRetry
ClientErrors == {APIError(s) : s \in Statuses} \cup PlainErrors
\* what callOpenAIAPI can return
CallOpenAIAPIErrors == {StatusError(s) : s \in Statuses} \cup PlainErrors

Returned(err) == [returned |-> TRUE, err |-> err]

\* ------------------------------------------------------------ shouldRetry
shouldRetry_NoUpperBound(err) == err.kind = "api" /\ err.status >= 500

shouldRetry(err) ==
    err.kind = "api" /\ err.status >= 500 /\ err.status < 600

\* time.Duration(float64(baseDelay) * math.Pow(2, float64(attempt)))
delay_Constant(k) == baseDelay

delay_Linear(k) == baseDelay * (k + 1)

delay(k) == baseDelay * 2^k

\* ---------------------------------------------------------- callWithRetry
\* a loop of one of the programs is about to call the service
RetryInit ==
    /\ SedIdle
    /\ KeyIdle
    /\ RetryIdle
    /\ GateIdle
    /\ program \in {"toolSuite", "bashAgent"}
    /\ exitCode = -1
    /\ testMode = FALSE
    /\ pc = "call"
    /\ messages = <<SystemMessage, UserMessage("prompt", "instruction")>>
    /\ contentBlocks = <<>>
    /\ next = 1
    /\ hasToolUse = FALSE
    /\ alwaysAllowedCommands = {}
    /\ calls = 0
    /\ received = 0
    /\ executed = <<>>
    /\ lastPrompt = NoPrompt
    /\ dispatched = <<>>

InCallWithRetry ==
    /\ program = "bashAgent"
    /\ pc = "call"
    /\ ~callResult.returned
    /\ attempt <= maxRetries

\* err == nil: return resp, nil
AttemptSucceeds ==
    /\ InCallWithRetry
    /\ errs' = Append(errs, Nil)
    /\ callResult' = Returned(Nil)
    /\ UNCHANGED <<attempt, slept>>
    /\ UNCHANGED <<sedVars, keyVars, loopVars, gateVars>>

\* shouldRetry(err) && attempt < maxRetries: sleep, continue
AttemptIsRetried ==
    /\ InCallWithRetry
    /\ \E err \in ClientErrors :
          /\ shouldRetry(err) /\ attempt < maxRetries
          /\ errs' = Append(errs, err)
          /\ slept' = Append(slept, delay(attempt))
          /\ attempt' = attempt + 1
    /\ UNCHANGED callResult
    /\ UNCHANGED <<sedVars, keyVars, loopVars, gateVars>>

\* otherwise: return nil, err
AttemptFails ==
    /\ InCallWithRetry
    /\ \E err \in ClientErrors :
          /\ ~(shouldRetry(err) /\ attempt < maxRetries)
          /\ errs' = Append(errs, err)
          /\ callResult' = Returned(err)
    /\ UNCHANGED <<attempt, slept>>
    /\ UNCHANGED <<sedVars, keyVars, loopVars, gateVars>>

\* ---------------------------------------------------------- callOpenAIAPI
\* the tool suite's call: one request, its error returned as it is
callOpenAIAPI ==
    /\ program = "toolSuite"
    /\ pc = "call"
    /\ ~callResult.returned
    /\ \E err \in CallOpenAIAPIErrors \cup {Nil} :
          /\ errs' = Append(errs, err)
          /\ callResult' = Returned(err)
    /\ UNCHANGED <<attempt, slept>>
    /\ UNCHANGED <<sedVars, keyVars, loopVars, gateVars>>

\* ------------------------------------------------- the loops' error check
\* if err != nil: the tool suite returns the error to main (log.Fatal), the
\* bash agent logs it and returns
LoopGetsError ==
    /\ pc = "call"
    /\ callResult.returned
    /\ callResult.err # Nil
    /\ calls' = calls + 1
    /\ pc' = "error"
    /\ exitCode' = IF program = "toolSuite" THEN 1 ELSE exitCode
    /\ UNCHANGED <<program, testMode, messages, contentBlocks, next, hasToolUse,
                   alwaysAllowedCommands, received, executed, lastPrompt,
                   dispatched>>
    /\ UNCHANGED <<sedVars, keyVars, retryVars, gateVars>>

\* err == nil: the loop goes on to the response
LoopGetsResponse ==
    /\ pc = "call"
    /\ callResult.returned
    /\ callResult.err = Nil
    /\ calls' = calls + 1
    /\ pc' = "dispatch"
    /\ UNCHANGED <<program, testMode, messages, contentBlocks, next, hasToolUse,
                   alwaysAllowedCommands, received, executed, lastPrompt,
                   dispatched, exitCode>>
    /\ UNCHANGED <<sedVars, keyVars, retryVars, gateVars>>

RetryNext ==
    \/ AttemptSucceeds
    \/ AttemptIsRetried
    \/ AttemptFails
    \/ callOpenAIAPI
    \/ LoopGetsError
    \/ LoopGetsResponse

RetrySpec == RetryInit /\ [][RetryNext]_vars

\* the loops under fair scheduling: the process keeps running, so a step
\* that can be taken (the remote call returning, the operator answering,
\* the for loop going on) is taken
LiveSpec == LoopInit /\ [][LoopNext]_vars /\ WF_vars(LoopNext)

\* ======================================================== permission gate
\* The gate over the lifetime of one process: the shell commands the loop
\* hands to executeShellCommand (tool suite) or handleBashCommand (bash
\* agent), one after the other, and the bash agent's new instructions.

\* gate calls made in one behaviour
MaxGateCalls == 2

GateCommands == {<<>>, <<" ">>, <<"x">>, <<"x", " ", "y">>, <<"y">>}

\* one call of the gate: the command, whether the operator was asked and
\* the answer, whether the command went to exec.Command, whether the call
\* panicked, and what the handler returned
GateCall(command, prompted, answer, ran, panic, result) ==
    [kind |-> "call", command |-> command, prompted |-> prompted,
     answer |-> answer, ran |-> ran, panic |-> panic, result |-> result]

InstructionRead == [kind |-> "instruction"]

NumGateCalls == Cardinality({i \in DOMAIN gateLog : gateLog[i].kind = "call"})

GateInit ==
    /\ program \in {"toolSuite", "bashAgent"}
    /\ testMode \in (IF program = "toolSuite" THEN BOOLEAN ELSE {FALSE})
    /\ pc = "dispatch"
    /\ messages = IF program = "toolSuite"
                  THEN <<UserMessage("prompt", "initialPrompt")>>
                  ELSE <<SystemMessage, UserMessage("prompt", "instruction")>>
    /\ contentBlocks = <<>>
    /\ next = 1
    /\ hasToolUse = FALSE
    /\ alwaysAllowedCommands = {}
    /\ calls = 0
    /\ received = 0
    /\ executed = <<>>
    /\ lastPrompt = NoPrompt
    /\ dispatched = <<>>
    /\ exitCode = -1
    /\ SedIdle
    /\ KeyIdle
    /\ RetryIdle
    /\ GateIdle

\* executeShellCommand(command, 10*time.Second)
GateShellCommand ==
    /\ program = "toolSuite"
    /\ pc = "dispatch"
    /\ NumGateCalls < MaxGateCalls
    /\ \E cmd \in GateCommands, answer \in Answers :
       \E child \in ChildrenOf(cmd, testMode, alwaysAllowedCommands, answer) :
          \* a child that hangs is killed at the deadline: cmd.Run fails
          LET o == executeShellCommand(cmd, testMode, alwaysAllowedCommands,
                                       answer, child # "exits")
          IN  IF o.panic
              THEN /\ pc' = "panic"
                   /\ exitCode' = 2
                   /\ lastPrompt' = NoPrompt
                   /\ gateLog' = Append(gateLog,
                          GateCall(cmd, FALSE, "", FALSE, TRUE, NoResult))
                   /\ UNCHANGED <<alwaysAllowedCommands, executed>>
              ELSE /\ UNCHANGED <<pc, exitCode>>
                   /\ alwaysAllowedCommands' = o.allowed
                   /\ lastPrompt' = IF o.prompted
                                    THEN [command |-> cmd, answer |-> answer,
                                          shown |-> TRUE]
                                    ELSE NoPrompt
                   /\ executed' = IF o.ran THEN Append(executed, cmd)
                                  ELSE executed
                   /\ gateLog' = Append(gateLog,
                          GateCall(cmd, o.prompted,
                                   IF o.prompted THEN answer ELSE "",
                                   o.ran, FALSE, o.result))
    /\ UNCHANGED <<program, testMode, messages, contentBlocks, next, hasToolUse,
                   calls, received, dispatched>>
    /\ UNCHANGED <<sedVars, keyVars, retryVars>>

\* a.handleBashCommand(command)
GateBash ==
    /\ program = "bashAgent"
    /\ pc = "dispatch"
    /\ NumGateCalls < MaxGateCalls
    /\ \E cmd \in GateCommands, choice \in Choices :
       \E instruction \in InstructionsOf(choice) :
       \E child \in BashChildrenOf(cmd, alwaysAllowedCommands, choice,
                                   instruction) :
          LET o == handleBashCommand(cmd, alwaysAllowedCommands, choice,
                                     instruction)
              childFails == child = "fails"
          IN  IF o.panic
              THEN /\ pc' = "panic"
                   /\ exitCode' = 2
                   /\ lastPrompt' = NoPrompt
                   /\ gateLog' = Append(gateLog,
                          GateCall(cmd, FALSE, "", FALSE, TRUE, NoResult))
                   /\ UNCHANGED <<alwaysAllowedCommands, executed, messages>>
              ELSE IF o.run /\ child = "hangs"
              \* cmd.CombinedOutput() has no deadline: it does not return
              THEN /\ pc' = "blocked"
                   /\ alwaysAllowedCommands' = o.allowed
                   /\ lastPrompt' = IF o.prompted
                                    THEN [command |-> cmd, answer |-> choice,
                                          shown |-> TRUE]
                                    ELSE NoPrompt
                   /\ executed' = Append(executed, cmd)
                   /\ gateLog' = Append(gateLog,
                          GateCall(cmd, o.prompted,
                                   IF o.prompted THEN choice ELSE "",
                                   TRUE, FALSE, NoResult))
                   /\ UNCHANGED <<messages, exitCode>>
              ELSE /\ UNCHANGED <<pc, exitCode>>
                   /\ alwaysAllowedCommands' = o.allowed
                   /\ lastPrompt' = IF o.prompted
                                    THEN [command |-> cmd, answer |-> choice,
                                          shown |-> TRUE]
                                    ELSE NoPrompt
                   /\ executed' = IF o.run THEN Append(executed, cmd)
                                  ELSE executed
                   /\ messages' = IF o.inject = <<>> THEN messages
                                  ELSE Append(messages,
                                         UserMessage("instruction", o.inject))
                   /\ gateLog' = Append(gateLog,
                          GateCall(cmd, o.prompted,
                                   IF o.prompted THEN choice ELSE "",
                                   o.run, FALSE, BashResult(o, childFails)))
    /\ UNCHANGED <<program, testMode, contentBlocks, next, hasToolUse, calls,
                   received, dispatched>>
    /\ UNCHANGED <<sedVars, keyVars, retryVars>>

\* a new instruction that starts with an empty allow-list
GateNewInstruction_Forgets ==
    /\ program = "bashAgent"
    /\ pc = "dispatch"
    /\ gateLog # <<>>
    /\ gateLog[Len(gateLog)].kind = "call"
    /\ messages' = <<SystemMessage, UserMessage("prompt", "instruction")>>
    /\ lastPrompt' = NoPrompt
    /\ alwaysAllowedCommands' = {}
    /\ gateLog' = Append(gateLog, InstructionRead)
    /\ UNCHANGED <<program, testMode, pc, contentBlocks, next, hasToolUse,
                   calls, received, executed, dispatched, exitCode>>
    /\ UNCHANGED <<sedVars, keyVars, retryVars>>

\* main of the bash agent reads the next instruction: the conversation
\* starts afresh, agent.allowedCommands stays
GateNewInstruction ==
    /\ program = "bashAgent"
    /\ pc = "dispatch"
    /\ gateLog # <<>>
    /\ gateLog[Len(gateLog)].kind = "call"
    /\ messages' = <<SystemMessage, UserMessage("prompt", "instruction")>>
    /\ lastPrompt' = NoPrompt
    /\ gateLog' = Append(gateLog, InstructionRead)
    /\ UNCHANGED <<program, testMode, pc, contentBlocks, next, hasToolUse,
                   alwaysAllowedCommands, calls, received, executed, dispatched,
                   exitCode>>
    /\ UNCHANGED <<sedVars, keyVars, retryVars>>

GateNext ==
    \/ GateShellCommand
    \/ GateBash
    \/ GateNewInstruction

GateSpec == GateInit /\ [][GateNext]_vars

\* ======================================================= protocol adapter
\* convertMessagesToChat followed by convertChoiceToContentBlocks: the
\* assistant message of a history is encoded for the request and the remote
\* side sends the encoded message back as its choice.

\* content blocks of the assistant message
MaxAdapterBlocks == 3

AdapterBlocks ==
    {TextBlock("a"), TextBlock("b"),
     ToolUse(<<1, 1>>, "shellCommand", CommandInput(<<"y">>)),
     ToolUse(<<1, 2>>, "finished", NoInput)}

RECURSIVE BlockSeqs(_)
BlockSeqs(n) ==
    IF n = 0 THEN {<<>>}
    ELSE LET S == BlockSeqs(n - 1)
         IN  S \cup {Append(q, b) : q \in {r \in S : Len(r) = n - 1},
                                    b \in AdapterBlocks}

\* the tool results the loop appends for the invocations among the blocks
ResultsFor(blocks) ==
    LET T == SelectSeq(blocks, LAMBDA b : b.type = "tool_use")
    IN  [i \in 1..Len(T) |-> ToolResultMessage("user", T[i].id, ShellResult("", 0))]

\* the choice that carries a chat message back: the same content, and the
\* JSON text of each tool call's arguments as the value it encodes
EchoedChoice(chat) ==
    [content |-> chat.content,
     toolCalls |-> [i \in 1..Len(chat.toolCalls) |->
                       [id |-> chat.toolCalls[i].id,
                        name |-> chat.toolCalls[i].name,
                        arguments |-> chat.toolCalls[i].arguments[2]]]]

AdapterInit ==
    /\ program = "toolSuite"
    /\ testMode = FALSE
    /\ pc = "call"
    /\ \E blocks \in BlockSeqs(MaxAdapterBlocks) \ {<<>>} :
          messages = <<UserMessage("prompt", "initialPrompt"),
                       AssistantMessage("", blocks)>> \o ResultsFor(blocks)
    /\ contentBlocks = <<>>
    /\ next = 1
    /\ hasToolUse = FALSE
    /\ alwaysAllowedCommands = {}
    /\ calls = 0
    /\ received = 0
    /\ executed = <<>>
    /\ lastPrompt = NoPrompt
    /\ dispatched = <<>>
    /\ exitCode = -1
    /\ SedIdle
    /\ KeyIdle
    /\ RetryIdle
    /\ GateIdle

\* the history is encoded, the encoded assistant message comes back and is
\* decoded into contentBlocks
EncodeDecode ==
    /\ pc = "call"
    /\ LET chat == convertMessagesToChat(messages)
       IN  \* chat[1] is the system prompt, chat[2] the user's prompt
           contentBlocks' = convertChoiceToContentBlocks(EchoedChoice(chat[3]))
    /\ pc' = "dispatch"
    /\ calls' = calls + 1
    /\ UNCHANGED <<program, testMode, messages, next, hasToolUse,
                   alwaysAllowedCommands, received, executed, lastPrompt,
                   dispatched, exitCode>>
    /\ UNCHANGED <<sedVars, keyVars, retryVars, gateVars>>

AdapterNext == EncodeDecode

AdapterSpec == AdapterInit /\ [][AdapterNext]_vars

\* ============================================================== todo tool
\* executeTodo on one checklist file.  The content of the file is the
\* sequence of its characters, "\n" among them.

TodoPath == <<"t">>

\* "# Todo List\n\n"
TodoHeader ==
    <<"#", " ", "T", "o", "d", "o", " ", "L", "i", "s", "t", "\n", "\n">>

\* "- [ ]" and "- [x]"
Unchecked == <<"-", " ", "[", " ", "]">>
Checked == <<"-", " ", "[", "x", "]">>

\* " -> "
Arrow == <<" ", "-", ">", " ">>

Task1 ==
    <<"T", "a", "s", "k", " ", "1">>
Task2 ==
    <<"T", "a", "s", "k", " ", "2">>
Task1Revised ==
    <<"T", "a", "s", "k", " ", "1", " ", "r", "e", "v", "i", "s", "e", "d">>

\* an item whose text shows a check box: "see - [ ] box"
BoxNote ==
    <<"s", "e", "e", " ", "-", " ", "[", " ", "]", " ", "b", "o", "x">>
See == <<"s", "e", "e">>

TodoItems == {Task1, Task2, BoxNote}

\* the content argument of update: well formed, and without the arrow
TodoUpdates ==
    {Task1 \o Arrow \o Task1Revised, Task2 \o Arrow \o Task1, Task1,
     Task1 \o Arrow \o Task2 \o Arrow \o Task1, See \o Arrow \o Task2}

\* a checklist handed to write: a done and a pending line that hold "Task 1"
\* after a pending line that does not
TodoWritten ==
    <<"#", " ", "T", "o", "d", "o", " ", "L", "i", "s", "t", "\n", "\n", "-",
      " ", "[", " ", "]", " ", "T", "a", "s", "k", " ", "2", "\n", "-", " ",
      "[", "x", "]", " ", "T", "a", "s", "k", " ", "1", "\n", "-", " ", "[",
      " ", "]", " ", "T", "a", "s", "k", " ", "1", "\n">>

TodoActions == {"read", "write", "add", "complete", "update", "list"}

WhiteSpace == {" ", "\n"}

\* strings.TrimSpace
RECURSIVE TrimSpace(_)
TrimSpace(s) ==
    IF s = <<>> THEN s
    ELSE IF s[1] \in WhiteSpace THEN TrimSpace(Tail(s))
    ELSE IF s[Len(s)] \in WhiteSpace THEN TrimSpace(SubSeq(s, 1, Len(s) - 1))
    ELSE s

\* strings.HasSuffix
HasSuffix(s, p) ==
    Len(p) <= Len(s) /\ SubSeq(s, Len(s) - Len(p) + 1, Len(s)) = p

\* strings.Split with a separator of any length
RECURSIVE SplitStr(_, _)
SplitStr(s, sep) ==
    IF Contains(s, sep)
    THEN LET i == CHOOSE k \in 1..Len(s) :
                      /\ HasPrefixAt(s, k, sep)
                      /\ \A j \in 1..(k - 1) : ~HasPrefixAt(s, j, sep)
         IN  <<SubSeq(s, 1, i - 1)>>
             \o SplitStr(SubSeq(s, i + Len(sep), Len(s)), sep)
    ELSE <<s>>

\* strings.Join of character sequences
RECURSIVE JoinStr(_, _)
JoinStr(parts, sep) ==
    IF parts = <<>> THEN <<>>
    ELSE IF Len(parts) = 1 THEN parts[1]
    ELSE parts[1] \o sep \o JoinStr(Tail(parts), sep)

\* strings.Replace(s, old, new, 1)
ReplaceFirst(s, old, new) ==
    IF ~Contains(s, old) THEN s
    ELSE LET i == CHOOSE k \in 1..Len(s) :
                      /\ HasPrefixAt(s, k, old)
                      /\ \A j \in 1..(k - 1) : ~HasPrefixAt(s, j, old)
         IN  SubSeq(s, 1, i - 1) \o new \o SubSeq(s, i + Len(old), Len(s))

\* the first line the for loop stops at, 0 if it stops at none
FirstLine(lines, Matches(_)) ==
    IF \E i \in 1..Len(lines) : Matches(lines[i])
    THEN CHOOSE i \in 1..Len(lines) :
            Matches(lines[i]) /\ \A j \in 1..(i - 1) : ~Matches(lines[j])
    ELSE 0

\* the files after the call and the ShellResult returned
TodoOutcome(fs, stdout, stderr, code) ==
    [fs |-> fs, stdout |-> stdout, result |-> ShellResult(stderr, code)]

\* ------------------------------------------------------------ addTodoItem
addTodoItem(fs, path, item) ==
    LET read == IF Exists(fs, path) THEN fs[path] ELSE <<>>
        existingContent == IF TrimSpace(read) = <<>> THEN TodoHeader ELSE read
        newContent == IF HasSuffix(existingContent, <<"\n">>)
                      THEN existingContent
                      ELSE existingContent \o <<"\n">>
    IN  TodoOutcome(WriteFile(fs, path,
                              newContent \o Unchecked \o <<" ">> \o item
                                         \o <<"\n">>),
                    "Todo item added successfully", "", 0)

\* ------------------------------------------- readTodoFile, writeTodoFile
\* Stdout of read, the content of the file, is not modelled
readTodoFile(fs, path) ==
    IF ~Exists(fs, path) THEN TodoOutcome(fs, "", "Todo file does not exist", 1)
    ELSE TodoOutcome(fs, "content", "", 0)

writeTodoFile(fs, path, content) ==
    TodoOutcome(WriteFile(fs, path, content), "Todo file written successfully",
                "", 0)

\* ------------------------------------------------------- completeTodoItem
completeTodoItem(fs, path, item) ==
    IF ~Exists(fs, path) THEN TodoOutcome(fs, "", "Error reading file", 1)
    ELSE LET lines == SplitSeq(fs[path], "\n")
             Open(line) == Contains(line, item) /\ Contains(line, Unchecked)
             i == FirstLine(lines, Open)
         IN  IF i = 0 THEN TodoOutcome(fs, "", "Todo item not found", 1)
             ELSE TodoOutcome(
                    WriteFile(fs, path,
                        JoinStr([lines EXCEPT
                                   ![i] = ReplaceFirst(lines[i], Unchecked, Checked)],
                                <<"\n">>)),
                    "Todo item completed successfully", "", 0)

\* --------------------------------------------------------- updateTodoItem
updateTodoItem_Reopens(fs, path, update) ==
    LET parts == SplitStr(update, Arrow)
    IN  IF Len(parts) # 2
        THEN TodoOutcome(fs, "", "Update format should be: 'old_item -> new_item'", 1)
        ELSE IF ~Exists(fs, path)
        THEN TodoOutcome(fs, "", "Error reading file", 1)
        ELSE LET oldItem == TrimSpace(parts[1])
                 newItem == TrimSpace(parts[2])
                 lines == SplitSeq(fs[path], "\n")
                 Item(line) ==
                     /\ Contains(line, oldItem)
                     /\ Contains(line, Unchecked) \/ Contains(line, Checked)
                 i == FirstLine(lines, Item)
             IN  IF i = 0 THEN TodoOutcome(fs, "", "Todo item not found", 1)
                 ELSE TodoOutcome(
                        WriteFile(fs, path,
                            JoinStr([lines EXCEPT
                                       ![i] = Unchecked \o <<" ">> \o newItem],
                                    <<"\n">>)),
                        "Todo item updated successfully", "", 0)

updateTodoItem(fs, path, update) ==
    LET parts == SplitStr(update, Arrow)
    IN  IF Len(parts) # 2
        THEN TodoOutcome(fs, "", "Update format should be: 'old_item -> new_item'", 1)
        ELSE IF ~Exists(fs, path)
        THEN TodoOutcome(fs, "", "Error reading file", 1)
        ELSE LET oldItem == TrimSpace(parts[1])
                 newItem == TrimSpace(parts[2])
                 lines == SplitSeq(fs[path], "\n")
                 Item(line) ==
                     /\ Contains(line, oldItem)
                     /\ Contains(line, Unchecked) \/ Contains(line, Checked)
                 i == FirstLine(lines, Item)
             IN  IF i = 0 THEN TodoOutcome(fs, "", "Todo item not found", 1)
                 ELSE TodoOutcome(
                        WriteFile(fs, path,
                            JoinStr([lines EXCEPT
                                       ![i] = (IF Contains(lines[i], Unchecked)
                                               THEN Unchecked ELSE Checked)
                                              \o <<" ">> \o newItem],
                                    <<"\n">>)),
                        "Todo item updated successfully", "", 0)

\* ------------------------------------------------------------ executeTodo
executeTodo(action, fs, path, content) ==
    CASE action = "read" -> readTodoFile(fs, path)
      [] action = "write" -> writeTodoFile(fs, path, content)
      [] action = "add" -> addTodoItem(fs, path, content)
      [] action = "complete" -> completeTodoItem(fs, path, content)
      [] action = "update" -> updateTodoItem(fs, path, content)
      [] OTHER -> TodoOutcome(fs, "", "Unknown todo action", 1)

\* the call made last: the action, its content argument and the result
TodoCall(action, content, outcome) ==
    [tool |-> "todo", action |-> action, content |-> content,
     stdout |-> outcome.stdout, result |-> outcome.result]

\* the checklist file is missing, empty, or holds an empty line
TodoInit ==
    /\ files \in {[p \in {} |-> <<>>],
                  [p \in {TodoPath} |-> <<>>],
                  [p \in {TodoPath} |-> <<"\n">>]}
    /\ sedDryRunCache = {}
    /\ lastCall = NoCall
    /\ ops = 0
    /\ previewed = {}
    /\ applied = {}
    /\ KeyIdle
    /\ LoopIdle
    /\ RetryIdle
    /\ GateIdle

TodoStep(action, content, outcome) ==
    /\ ops < MaxOps
    /\ ops' = ops + 1
    /\ files' = outcome.fs
    /\ lastCall' = TodoCall(action, content, outcome)
    /\ UNCHANGED <<sedDryRunCache, previewed, applied, keyVars, loopVars,
                   retryVars, gateVars>>

TodoAdd ==
    \E item \in TodoItems :
        TodoStep("add", item, executeTodo("add", files, TodoPath, item))

TodoComplete ==
    \E item \in TodoItems :
        TodoStep("complete", item,
                 executeTodo("complete", files, TodoPath, item))

TodoUpdate ==
    \E update \in TodoUpdates :
        TodoStep("update", update,
                 executeTodo("update", files, TodoPath, update))

TodoRead ==
    TodoStep("read", <<>>, executeTodo("read", files, TodoPath, <<>>))

TodoWrite ==
    TodoStep("write", TodoWritten,
             executeTodo("write", files, TodoPath, TodoWritten))

\* an action the switch has no case for
TodoUnknown ==
    \E action \in TodoActions \ {"read", "write", "add", "complete", "update"} :
        TodoStep(action, <<>>, executeTodo(action, files, TodoPath, <<>>))

TodoNext ==
    \/ TodoAdd
    \/ TodoComplete
    \/ TodoUpdate
    \/ TodoRead
    \/ TodoWrite
    \/ TodoUnknown

TodoSpec == TodoInit /\ [][TodoNext]_vars

\* ================================================================ claims
IsPreview(call) == call.tool = "sed" /\ ~call.skipped /\ call.dryRun
IsApply(call) == call.tool = "sed" /\ ~call.skipped /\ ~call.dryRun
KeyOf(call) ==
    generateSedOperationKey(call.filePath, call.searchPattern, call.replacePattern)
Rejected(call) == call.result = ShellResult(MustDryRun, 1) /\ ~call.ran
SameFile(fs1, fs2, path) ==
    /\ Exists(fs1, path) <=> Exists(fs2, path)
    /\ Exists(fs1, path) => fs1[path] = fs2[path]

\* C1: an apply (dryRun=false) issued while the cache holds no entry for the
\* key of its triple returns exit code 1 with the "Must perform dry-run"
\* error, starts no sed process, and leaves every file and the cache as
\* they were.
C1_ApplyWithoutPreviewIsRejected ==
    [][ (IsApply(lastCall') /\ KeyOf(lastCall') \notin sedDryRunCache)
        => /\ lastCall'.result.ExitCode = 1
           /\ lastCall'.result.Stderr = MustDryRun
           /\ ~lastCall'.ran
           /\ files' = files
           /\ sedDryRunCache' = sedDryRunCache ]_vars

\* an apply of a triple that was never previewed has just been rejected
C1_Witness ==
    /\ IsApply(lastCall)
    /\ Rejected(lastCall)
    /\ Triple(lastCall) \notin previewed
    /\ Exists(files, lastCall.filePath)

\* C2: on an existing target file, a dry-run that returned 0 followed at
\* once by the apply of the same triple returns 0 and leaves the target
\* holding the substitution (the apply not being killed at its deadline).
C2_PreviewThenApplySucceeds ==
    [][ (/\ IsPreview(lastCall) /\ lastCall.result.ExitCode = 0
         /\ Exists(files, lastCall.filePath)
         /\ IsApply(lastCall') /\ Triple(lastCall') = Triple(lastCall)
         /\ ~lastCall'.timedOut)
        => /\ lastCall'.result.ExitCode = 0
           /\ Exists(files', lastCall.filePath)
           /\ files'[lastCall.filePath]
                = Subst(files[lastCall.filePath], lastCall.searchPattern,
                        lastCall.replacePattern, TRUE) ]_vars

\* C3: an apply that returned 0 leaves no cache entry for its key, and the
\* same apply issued again right after it is rejected with the "Must
\* perform dry-run" error and changes no file.
C3_ApplyConsumesTheEntry ==
    [][ /\ (IsApply(lastCall') /\ lastCall'.result.ExitCode = 0 /\ ops' = ops + 1)
           => KeyOf(lastCall') \notin sedDryRunCache'
        /\ (/\ IsApply(lastCall) /\ lastCall.result.ExitCode = 0
            /\ IsApply(lastCall') /\ Triple(lastCall') = Triple(lastCall)
            /\ ops' = ops + 1)
           => (Rejected(lastCall') /\ files' = files) ]_vars

\* the same triple was applied with success and its next apply rejected
C3_Witness ==
    /\ IsApply(lastCall)
    /\ Rejected(lastCall)
    /\ Triple(lastCall) \in applied
    /\ ops = 3

\* C4: when the only triple previewed so far is T, an apply of any triple
\* that differs from T in a component is rejected with the "Must perform
\* dry-run" error and changes no file.
C4_PreviewAuthorizesOnlyItsTriple ==
    [][ \A T \in previewed :
           (previewed = {T} /\ IsApply(lastCall') /\ Triple(lastCall') # T
            /\ ops' = ops + 1)
           => (Rejected(lastCall') /\ files' = files) ]_vars

\* C5: an apply that changes a file comes right after a dry-run of the same
\* triple that returned 0, with no other tool call in between.
C5_ApplyRightAfterItsPreview ==
    [][ (IsApply(lastCall') /\ files' # files)
        => (/\ IsPreview(lastCall) /\ lastCall.result.ExitCode = 0
            /\ Triple(lastCall) = Triple(lastCall')) ]_vars

\* C6: equal triples get equal keys and different triples get different
\* keys, over every pair of triples of strings over {a, |}.
C6_KeyIsInjective ==
    keyOut # <<>> => ((keyIn[1] = keyIn[2]) <=> (keyOut[1] = keyOut[2]))

\* C7: a cache entry appears only when a dry-run returns 0, and then it is
\* the entry of that dry-run; a dry-run that did not succeed (no target
\* file, a failing sed, a timeout) returns a non-zero exit code and leaves
\* the cache as it was.
C7_OnlySuccessfulPreviewCreatesEntry ==
    [][ /\ (sedDryRunCache' \ sedDryRunCache # {})
           => (/\ IsPreview(lastCall') /\ lastCall'.result.ExitCode = 0
               /\ sedDryRunCache' \ sedDryRunCache = {KeyOf(lastCall')})
        /\ (IsPreview(lastCall') /\ lastCall'.result.ExitCode = 0 /\ ops' = ops + 1)
           => KeyOf(lastCall') \in sedDryRunCache'
        /\ (/\ IsPreview(lastCall') /\ ops' = ops + 1
            /\ (~lastCall'.ran \/ lastCall'.timedOut \/ lastCall'.child # 0))
           => (/\ lastCall'.result.ExitCode # 0
               /\ sedDryRunCache' = sedDryRunCache) ]_vars

\* C8: a dry-run leaves the target file as it was, whatever its outcome.
C8_PreviewLeavesTargetUnchanged ==
    [][ (IsPreview(lastCall') /\ ops' = ops + 1)
        => SameFile(files, files', lastCall'.filePath) ]_vars


\* ------------------------------------------------------------ agent loops
\* the answers that stand for allow-once and always-allow
Permits(prog) ==
    IF prog = "toolSuite" THEN {"y", "yes", "a", "always"} ELSE {"yes", "always"}

Permitted(cmd) ==
    \/ testMode
    \/ Fields(cmd) # <<>> /\ Fields(cmd)[1] \in alwaysAllowedCommands
    \/ /\ lastPrompt'.shown
       /\ lastPrompt'.command = cmd
       /\ lastPrompt'.answer \in Permits(program)

\* C9: in both loops the command of a shellCommand / bash invocation goes to
\* exec.Command only if, at that moment, test mode is on, or its leading
\* binary is in the allow-list, or the operator answered allow-once or
\* always-allow to the prompt shown for that very command; and a step whose
\* prompt was answered with anything else (deny, instruct, an unrecognized
\* answer, a failed prompt) executes nothing.
C9_CommandRunsOnlyWithPermission ==
    [][ /\ executed' # executed =>
             /\ Len(executed') = Len(executed) + 1
             /\ SubSeq(executed', 1, Len(executed)) = executed
             /\ Permitted(executed'[Len(executed')])
        /\ (lastPrompt'.shown /\ lastPrompt'.answer \notin Permits(program)) =>
             executed' = executed ]_vars

\* C9 witness: the bash agent has run two commands of one response, the
\* second without a prompt because its binary was allowed for good
C9_Witness ==
    /\ program = "bashAgent"
    /\ pc = "dispatch"
    /\ Len(executed) = 2
    /\ next = 3
    /\ ~lastPrompt.shown
    /\ Fields(executed[2])[1] \in alwaysAllowedCommands

FinishName == IF program = "toolSuite" THEN "finished" ELSE "finish"

\* the positions of the finished / finish invocations of the response
FinishPositions ==
    {i \in 1..Len(contentBlocks) :
        contentBlocks[i].type = "tool_use" /\ contentBlocks[i].name = FinishName}

FirstFinish == CHOOSE k \in FinishPositions : \A j \in FinishPositions : k <= j

\* the tool invocations at the positions up to n, in the order received
ToolPositionsUpTo(n) ==
    LET P == {i \in 1..n : i <= Len(contentBlocks)
                           /\ contentBlocks[i].type = "tool_use"}
        Nth[j \in 0..Cardinality(P)] ==
            IF j = 0 THEN 0
            ELSE CHOOSE i \in P : i > Nth[j - 1]
                                  /\ \A h \in P : h > Nth[j - 1] => i <= h
    IN  [j \in 1..Cardinality(P) |-> Nth[j]]

FinishedResponseEndsTheLoop ==
    FinishPositions # {} =>
       /\ pc \in {"dispatch", "success"}
       /\ pc = "dispatch" =>
             /\ next <= FirstFinish
             /\ dispatched = ToolPositionsUpTo(next - 1)
       /\ pc = "success" =>
             /\ next = FirstFinish
             /\ dispatched = ToolPositionsUpTo(FirstFinish)

\* C10: when the response carries finished / finish at position k, the loop
\* takes up the invocations before k in the order received and none after
\* k, ends in the success state, and makes no remote call after that.
C10_FinishedEndsTheLoop ==
    /\ []FinishedResponseEndsTheLoop
    /\ [][pc = "success" => calls' = calls]_vars


\* the response has no tool invocation
NoToolUse(blocks) == \A i \in 1..Len(blocks) : blocks[i].type # "tool_use"

Last(seq) == seq[Len(seq)]

\* C11: when a response (one with a choice) has no tool invocation, the
\* loop appends the assistant message, takes up no tool, neither ends nor
\* fails, appends exactly one nudge message as a user message when the
\* blocks are done, and the step after the nudge is one remote call.
C11_ProseOnlyIsNudged ==
    [][ /\ (pc = "call" /\ pc' = "dispatch" /\ NoToolUse(contentBlocks')) =>
              /\ Len(messages') = Len(messages) + 1
              /\ SubSeq(messages', 1, Len(messages)) = messages
              /\ Last(messages').role = "assistant"
              /\ Last(messages').blocks = contentBlocks'
        /\ (pc = "dispatch" /\ NoToolUse(contentBlocks)) =>
              /\ pc' \in {"dispatch", "call"}
              /\ dispatched' = <<>>
              /\ executed' = executed
              /\ calls' = calls
              /\ exitCode' = -1
              /\ IF pc' = "call"
                 THEN /\ Last(messages).role = "assistant"
                      /\ Len(messages') = Len(messages) + 1
                      /\ SubSeq(messages', 1, Len(messages)) = messages
                      /\ Last(messages').role = "user"
                      /\ Last(messages').kind = "nudge"
                 ELSE messages' = messages
        /\ (pc = "call" /\ Last(messages).kind = "nudge") =>
              calls' = calls + 1 ]_vars

\* C11 witness: the bash agent was nudged after its first response and has
\* made its second remote call
C11_Witness ==
    /\ program = "bashAgent"
    /\ calls = 2
    /\ pc = "dispatch"
    /\ messages[Len(messages) - 1].kind = "nudge"


\* the invocation names a registered tool and carries its required string
WellTyped(block) ==
    IF program = "toolSuite"
    THEN \/ /\ block.name \in DOMAIN RequiredArgument
            /\ HasStrings(block.input, RequiredArgument[block.name])
         \/ block.name \in NoArgumentTools
    ELSE /\ block.name = "bash"
         /\ HasString(block.input, "command")

HasToolUse(blocks) == ~NoToolUse(blocks)

AllWellTyped(blocks) ==
    \A i \in 1..Len(blocks) : blocks[i].type = "tool_use" => WellTyped(blocks[i])

\* the position of the last assistant message of the history, 0 if none
LastAssistant ==
    LET A == {i \in 1..Len(messages) : messages[i].role = "assistant"}
    IN  IF A = {} THEN 0 ELSE CHOOSE i \in A : \A j \in A : j <= i

\* the ids of the tool results appended after the last assistant message
ResultIds ==
    LET R == SelectSeq(SubSeq(messages, LastAssistant + 1, Len(messages)),
                       LAMBDA m : m.kind = "tool_result")
    IN  [j \in 1..Len(R) |-> R[j].id]

\* the ids of the tool invocations at the positions up to n
InvocationIds(n) ==
    [j \in 1..Len(ToolPositionsUpTo(n)) |->
        contentBlocks[ToolPositionsUpTo(n)[j]].id]

\* C12: while and after the loop works through a response whose tool
\* invocations are all registered, well typed and none of them finished,
\* it is in the for loop, or back before the next remote call (or stopped
\* by the failure of that call); it has taken up the invocations before
\* the current position in the order received, and the tool results
\* appended since the assistant message are one per such invocation, in
\* that order, each with the invocation's id; so all of them by the time
\* of the next remote call.
C12_OneResultPerInvocation ==
    (HasToolUse(contentBlocks) /\ AllWellTyped(contentBlocks)) =>
        /\ pc \in {"dispatch", "call", "error"}
        /\ dispatched = ToolPositionsUpTo(next - 1)
        /\ ResultIds = InvocationIds(next - 1)
        /\ pc # "dispatch" => next = Len(contentBlocks) + 1


\* what correlation needs of a message: whether it is an assistant message
\* or a tool result, the invocation ids it carries, the id it answers
HistoryView ==
    [i \in 1..Len(messages) |->
        [assistant |-> messages[i].role = "assistant",
         result |-> messages[i].kind = "tool_result",
         ids |-> {b.id : b \in {messages[i].blocks[j] :
                                   j \in {k \in 1..Len(messages[i].blocks) :
                                            messages[i].blocks[k].type = "tool_use"}}},
         id |-> messages[i].id]]

RequestView ==
    LET R == RequestMessages
    IN  [i \in 1..Len(R) |->
            [assistant |-> R[i].role = "assistant",
             result |-> R[i].role = "tool",
             ids |-> {R[i].toolCalls[j].id : j \in 1..Len(R[i].toolCalls)},
             id |-> R[i].toolCallId]]

\* each result answers an invocation of the latest assistant message
\* before it, and no id is answered twice
Correlated(view) ==
    LET v == SubSeq(view, 1, Len(view))
    IN  /\ \A i \in 1..Len(v) :
              v[i].result =>
                 \E a \in 1..(i - 1) :
                    /\ v[a].assistant
                    /\ \A j \in (a + 1)..(i - 1) : ~v[j].assistant
                    /\ v[i].id \in v[a].ids
        /\ \A i, j \in 1..Len(v) :
              (v[i].result /\ v[j].result /\ v[i].id = v[j].id) => i = j

Ended == pc \in {"success", "error", "panic"}

LoopEndsOnlyByFinishOrCallError ==
    /\ (pc # "success" /\ pc' = "success") => FinishPositions # {}
    /\ (pc # "error" /\ pc' = "error") => (pc = "call" /\ calls' = calls + 1)
    /\ (~Ended /\ Ended') => pc' \in {"success", "error"}

LoopRunsOrEndedRegularly ==
    program # "none" => pc \in {"call", "dispatch", "success", "error"}

\* C14: the loop enters the success state only while working on a response
\* that carries finished / finish, and the error state only by a remote
\* call that fails (a response without choices counted as one); it ends in
\* no other way, so that in every other situation it is in the for loop or
\* on its way to the next remote call.
C14_EndsOnlyByFinishOrError ==
    /\ [][LoopEndsOnlyByFinishOrCallError]_vars
    /\ []LoopRunsOrEndedRegularly


\* the step appended a tool result for the invocation it took up
AppendedResult ==
    /\ Len(messages') > Len(messages)
    /\ Last(messages').kind = "tool_result"
    /\ Last(messages').id = Block.id

\* the result reports a non-zero exit code: the ExitCode of the ShellResult
\* in the tool suite; in the bash agent only the "Command failed" string
\* does, through err.Error() ("exit status 1")
ReportsFailure(content) ==
    IF program = "toolSuite" THEN content.ExitCode # 0
    ELSE content = "Command failed: ..."

HasErrorText(content) ==
    IF program = "toolSuite" THEN content.Stderr # "" ELSE content # ""

\* the operator refused the command the step asked about
DeniedStep ==
    lastPrompt'.shown /\ lastPrompt'.answer \notin Permits(program)

\* what a step whose handler fails has to do
FailureIsReported ==
    /\ DeniedStep =>
          /\ AppendedResult
          /\ ReportsFailure(Last(messages').content)
          /\ HasErrorText(Last(messages').content)
          /\ pc' = "dispatch"
          /\ next' = next + 1
    /\ (InLoop /\ AppendedResult /\ ReportsFailure(Last(messages').content)) =>
          /\ HasErrorText(Last(messages').content)
          /\ pc' = "dispatch"
          /\ next' = next + 1

\* C15: a step whose handler fails does not end the loop.  When the
\* operator refuses a command, and when a handler's result reports a
\* failure, the step appends a tool result for that invocation with a
\* non-zero exit code and an error text, and the loop stays in the for loop
\* at the next invocation (so the rest of the batch and the next remote
\* call follow).
C15_HandlerFailureIsReported == [][FailureIsReported]_vars


\* a step in which the remote call hands an error to the loop
CallErrorStep == pc = "call" /\ pc' = "error"

\* what the loop does with a remote-call error, and after it
StopsOnCallError ==
    /\ CallErrorStep =>
          /\ messages' = messages
          /\ dispatched' = dispatched
          /\ executed' = executed
          /\ contentBlocks' = contentBlocks
          /\ program = "toolSuite" => exitCode' = 1
    /\ pc = "error" =>
          \* the tool suite's process is gone; the bash agent's main loop
          \* can only take the operator's next instruction
          /\ program = "bashAgent"
          /\ calls' = calls
          /\ executed' = executed
          /\ dispatched' = <<>>
          /\ messages' = <<SystemMessage, UserMessage("prompt", "instruction")>>

Retryable(err) == err.kind = "api" /\ err.status \in 500..599
Failure(err) == err # Nil
Terminal(err) == Failure(err) /\ ~Retryable(err)

\* the attempts made so far that failed with a retryable error
RetryableFailures == {i \in DOMAIN errs : Retryable(errs[i])}
StrictlyIncreasing(seq) ==
    \A i \in DOMAIN seq : \A j \in DOMAIN seq : i < j => seq[i] < seq[j]
WrapperReturned == program = "bashAgent" /\ callResult.returned

\* C17: when callWithRetry returns a success after N retryable failures,
\* N is at most 10, it has made exactly N+1 attempts and slept N times, each
\* sleep longer than the one before; when the first attempt fails with a
\* terminal error, callWithRetry returns that error after this one attempt
\* without any sleep.
C17_SuccessAfterNRetries ==
    /\ (WrapperReturned /\ callResult.err = Nil) =>
          /\ Cardinality(RetryableFailures) \in 0..10
          /\ Len(errs) = Cardinality(RetryableFailures) + 1
          /\ errs[Len(errs)] = Nil
          /\ Len(slept) = Cardinality(RetryableFailures)
          /\ StrictlyIncreasing(slept)
    /\ (program = "bashAgent" /\ errs # <<>> /\ Terminal(errs[1])) =>
          /\ callResult = Returned(errs[1])
          /\ Len(errs) = 1
          /\ slept = <<>>

\* success at the eleventh attempt, after ten retryable failures
C17_Witness ==
    /\ WrapperReturned
    /\ callResult.err = Nil
    /\ Cardinality(RetryableFailures) = 10
    /\ Len(slept) = 10

AllRetryable == \A i \in DOMAIN errs : Retryable(errs[i])

\* C18: in callWithRetry the sleep after the failed attempt number k
\* (counted from 0) lasts 1 second * 2^k; when every attempt fails with a
\* retryable error, the wrapper returns only after 11 attempts and 10
\* sleeps (none after the last attempt), with the error of the last attempt.
C18_BackoffDoublesAndStopsAtEleven ==
    program = "bashAgent" =>
        /\ \A k \in 0..(Len(slept) - 1) : slept[k + 1] = 2^k
        /\ Len(errs) <= 11
        /\ Len(slept) <= 10
        /\ (AllRetryable /\ ~callResult.returned) => Len(slept) = Len(errs)
        /\ (AllRetryable /\ callResult.returned) =>
              /\ Len(errs) = 11
              /\ Len(slept) = 10
              /\ callResult.err = errs[11]

\* all eleven attempts failed with a retryable error
C18_Witness ==
    /\ WrapperReturned
    /\ AllRetryable
    /\ Len(errs) = 11
    /\ slept[10] = 512
    /\ pc = "error"

\* the step makes an attempt of callWithRetry that fails
FailedAttempt ==
    /\ program = "bashAgent"
    /\ Len(errs') = Len(errs) + 1
    /\ Failure(Last(errs'))

\* how callWithRetry treats the failure of the attempt it just made
ClassifiesFailure ==
    FailedAttempt =>
        /\ shouldRetry(Last(errs')) <=> Retryable(Last(errs'))
        /\ Terminal(Last(errs')) =>
              /\ callResult' = Returned(Last(errs'))
              /\ slept' = slept
        /\ (Retryable(Last(errs')) /\ Len(errs') <= 10) =>
              /\ ~callResult'.returned
              /\ Len(slept') = Len(slept) + 1

\* C19: a failure of the remote call is retried if and only if it is an API
\* error with a status in 500..599 (and attempts are left); every other
\* failure (4xx, 600, missing credential, malformed response, any error
\* without a status) makes callWithRetry return it after that attempt
\* without sleeping.
C19_OnlyServerErrorsAreRetried == [][ClassifiesFailure]_vars

\* after one retry, an API error just outside the 5xx class ended the call
C19_Witness ==
    /\ WrapperReturned
    /\ Len(errs) = 2
    /\ Len(slept) = 1
    /\ callResult.err = APIError(600)

\* the service was unreachable or answered with a 5xx status
TransportError(err) ==
    \/ err.kind = "unreachable"
    \/ err.kind \in {"api", "errorf"} /\ err.status \in 500..599

\* C20: in both programs a loop is ended by an unreachable service or a 5xx
\* answer only after the call was retried with backoff until the retries
\* were used up (11 attempts, 10 sleeps).
C20_TransportErrorsAreRetried ==
    (pc = "error" /\ TransportError(callResult.err)) =>
        /\ Len(errs) = maxRetries + 1
        /\ Len(slept) = maxRetries

\* -------------------------------------------------------- permission gate
GateCalls == {i \in DOMAIN gateLog : gateLog[i].kind = "call"}

\* the answers that stand for always-allow
AlwaysAnswers(prog) == IF prog = "toolSuite" THEN {"a", "always"} ELSE {"always"}

AnsweredAlways(i) ==
    gateLog[i].prompted /\ gateLog[i].answer \in AlwaysAnswers(program)

\* the commands of the calls i and j start with the same binary
SameBinary(i, j) ==
    /\ Fields(gateLog[i].command) # <<>>
    /\ Fields(gateLog[j].command) # <<>>
    /\ Fields(gateLog[i].command)[1] = Fields(gateLog[j].command)[1]

\* C21: once the operator has answered always-allow to the prompt for a
\* command, every later command of the process with the same first field is
\* executed and no prompt is shown for it, whatever follows the first field
\* and whether or not a new instruction was read in between.
C21_AlwaysAllowLasts ==
    \A i \in GateCalls : \A j \in GateCalls :
        (i < j /\ AnsweredAlways(i) /\ SameBinary(i, j)) =>
            (gateLog[j].ran /\ ~gateLog[j].prompted)

\* the bash agent: always-allow for "x", a new instruction, then "x y" runs
\* without a prompt
C21_Witness ==
    /\ program = "bashAgent"
    /\ Len(gateLog) = 3
    /\ gateLog[1].kind = "call" /\ gateLog[1].command = <<"x">>
    /\ gateLog[1].answer = "always"
    /\ gateLog[2] = InstructionRead
    /\ gateLog[3].kind = "call" /\ gateLog[3].command = <<"x", " ", "y">>
    /\ gateLog[3].ran /\ ~gateLog[3].prompted
    /\ executed = << <<"x">>, <<"x", " ", "y">> >>

\* the answers that stand for substitute-instruction
InstructAnswers(prog) ==
    IF prog = "toolSuite" THEN {"i", "instruct"} ELSE {"instruct"}

\* the operator answered the step's prompt with deny or with something
\* outside the recognized answers (for the bash agent: also a failed
\* selection)
RefusedStep ==
    /\ lastPrompt'.shown
    /\ lastPrompt'.answer \notin Permits(program) \cup InstructAnswers(program)

\* the result reports the refusal
ReportsRefusal(content) ==
    IF program = "toolSuite" THEN content = ShellResult(Cancelled, 1)
    ELSE content \in {"Permission denied by user",
                      "Permission denied - invalid response",
                      "Permission denied - selection error"}

RefusalIsAFailure ==
    RefusedStep =>
        /\ executed' = executed
        /\ alwaysAllowedCommands' = alwaysAllowedCommands
        /\ AppendedResult
        /\ Len(messages') = Len(messages) + 1
        /\ ReportsRefusal(Last(messages').content)

\* C22: when the operator answers the prompt with deny or with an answer
\* outside the recognized ones, the command is not executed, the allow-list
\* stays as it was, and the tool result of the invocation reports the
\* refusal: exit code 1 with stderr "Command execution cancelled by user"
\* in the tool suite, a "Permission denied" text in the bash agent.
C22_RefusalIsReported == [][RefusalIsAFailure]_vars

\* the tool suite has just refused a command on an unrecognized answer
C22_Witness ==
    /\ program = "toolSuite"
    /\ lastPrompt.shown
    /\ lastPrompt.answer = "maybe"
    /\ executed = <<>>
    /\ alwaysAllowedCommands = {}
    /\ Last(messages).kind = "tool_result"
    /\ Last(messages).content = ShellResult(Cancelled, 1)

\* the operator chose substitute-instruction at the step's prompt and gave
\* a text (the bash agent answers an empty text with "no alternative
\* instructions provided"; the tool suite reads the text and prints it)
InstructStep ==
    /\ lastPrompt'.shown
    /\ lastPrompt'.answer \in InstructAnswers(program)
    /\ ~ /\ program = "bashAgent"
         /\ Last(messages').content =
               "Permission denied - no alternative instructions provided"

\* the result says that an alternate instruction took the command's place
StatesSubstitution(content) ==
    IF program = "toolSuite"
    THEN content.ExitCode # 0 /\ content # ShellResult(Cancelled, 1)
    ELSE content = "User provided alternative instructions"

InstructionIsInjected ==
    InstructStep =>
        /\ executed' = executed
        /\ Len(messages') = Len(messages) + 2
        /\ messages'[Len(messages) + 1].role = "user"
        /\ messages'[Len(messages) + 1].kind = "instruction"
        /\ AppendedResult
        /\ StatesSubstitution(Last(messages').content)

\* C23: in both loops, when the operator chooses substitute-instruction and
\* gives a text, the command is not executed, the text is appended to the
\* history as a new user message, and the tool result of the invocation
\* says that the command was cancelled in favour of an alternate
\* instruction.
C23_InstructionReplacesTheCommand == [][InstructionIsInjected]_vars

\* the handler that started a child process returns with a result
ChildIsBounded ==
    executed' # executed =>
        /\ pc' = "dispatch"
        /\ AppendedResult
        /\ next' = next + 1

\* C24: in both loops a dispatch that starts a child process does not wait
\* for it without bound: whatever the child does (exit, failure, no end at
\* all), the handler returns, the invocation gets its tool result and the
\* loop goes on to the next invocation.
C24_ChildrenAreBounded == [][ChildIsBounded]_vars

\* ------------------------------------------------------- protocol adapter
\* the tool messages of the encoded history, and the tool results of the
\* history itself
ToolChats(chat) == SelectSeq(chat, LAMBDA m : m.role = "tool")
ToolResults(msgs) == SelectSeq(msgs, LAMBDA m : m.kind = "tool_result")

\* C25: encoding a history with convertMessagesToChat and decoding the
\* encoded assistant message with convertChoiceToContentBlocks gives back
\* the content blocks of the assistant message, the same items in the same
\* order (several texts and texts after invocations included), and the
\* encoded tool messages carry the ids and contents of the tool results in
\* their order.
C25_EncodeDecodeIsIdentity ==
    pc = "dispatch" =>
        /\ contentBlocks = messages[2].blocks
        /\ LET T == ToolChats(convertMessagesToChat(messages))
               R == ToolResults(messages)
           IN  /\ Len(T) = Len(R)
               /\ \A i \in 1..Len(R) :
                     T[i].toolCallId = R[i].id /\ T[i].content = R[i].content

\* ------------------------------------------------------ skipped invocations
\* the string arguments the tools require
ClaimedRequired ==
    [shellCommand |-> {"command"}, goDoc |-> {"packageOrSymbol"},
     ripgrep |-> {"pattern"},
     sed |-> {"filePath", "searchPattern", "replacePattern"},
     todo |-> {"action"}, comby |-> {"matchTemplate"}, ask |-> {"question"}]

\* the loop is at an invocation that lacks a required string
AtIllTypedInvocation ==
    /\ program = "toolSuite"
    /\ InLoop
    /\ Block.type = "tool_use"
    /\ Block.name \in DOMAIN ClaimedRequired
    /\ \E key \in ClaimedRequired[Block.name] :
          \/ key \notin DOMAIN Block.input
          \/ Block.input[key].type # "string"

IllTypedIsSkipped ==
    /\ AtIllTypedInvocation =>
          /\ messages' = messages
          /\ executed' = executed
          /\ alwaysAllowedCommands' = alwaysAllowedCommands
          /\ hasToolUse'
          /\ pc' = "dispatch"
          /\ next' = next + 1
    /\ (program = "toolSuite" /\ pc = "dispatch" /\ pc' = "call"
        /\ HasToolUse(contentBlocks)) => messages' = messages

\* C26: in the tool suite an invocation that lacks a required string
\* argument (absent, or not a string) is skipped: no handler runs, no
\* message is appended for it, the loop stays in the batch at the next
\* invocation, and the turn that contained it ends without a nudge.
C26_IllTypedInvocationIsSkipped == [][IllTypedIsSkipped]_vars

\* the only invocation of the first response was a sed call without its
\* patterns; the loop is about to call again with nothing appended
C26_Witness ==
    /\ program = "toolSuite"
    /\ pc = "call"
    /\ calls = 1
    /\ Len(contentBlocks) = 1
    /\ contentBlocks[1].name = "sed"
    /\ dispatched = <<1>>
    /\ Len(messages) = 2

\* the tools each loop supports
Supported(prog) ==
    IF prog = "toolSuite"
    THEN DOMAIN ClaimedRequired \cup {"gofmt", "finished"}
    ELSE {"bash", "finish"}

AtUnsupportedTool ==
    /\ InLoop
    /\ Block.type = "tool_use"
    /\ Block.name \notin Supported(program)

UnsupportedToolEndsTheLoop ==
    /\ AtUnsupportedTool =>
          /\ pc' = "error"
          /\ messages' = messages
          /\ executed' = executed
          /\ calls' = calls

\* C27: in both loops an invocation that names a tool the loop does not
\* support puts the loop into the error state at once: nothing after it is
\* dispatched and no further remote call is made.
C27_UnsupportedToolIsTerminal == [][UnsupportedToolEndsTheLoop]_vars

\* ------------------------------------------------------- empty commands
\* the handler's result reports a failure with a text
FailureResult(result) ==
    IF program = "toolSuite"
    THEN result.ExitCode # 0 /\ result.Stderr # ""
    ELSE result \notin {"", "output"}

\* C28: outside test mode no shell command makes the dispatch abort the
\* process, the empty command and a command of white space included: such
\* a command is refused, not executed, and the handler returns a result
\* with a non-zero exit code and an error text, after which the process
\* goes on.
C28_EmptyCommandIsRefused ==
    ~testMode =>
        /\ pc # "panic"
        /\ \A i \in GateCalls :
               Fields(gateLog[i].command) = <<>> =>
                   /\ ~gateLog[i].panic
                   /\ ~gateLog[i].ran
                   /\ FailureResult(gateLog[i].result)

\* ---------------------------------------------------------------- todo tool
AfterAdd ==
    <<"#", " ", "T", "o", "d", "o", " ", "L", "i", "s", "t", "\n", "\n", "-",
      " ", "[", " ", "]", " ", "T", "a", "s", "k", " ", "1", "\n">>
AfterComplete ==
    <<"#", " ", "T", "o", "d", "o", " ", "L", "i", "s", "t", "\n", "\n", "-",
      " ", "[", "x", "]", " ", "T", "a", "s", "k", " ", "1", "\n">>
AfterUpdate ==
    <<"#", " ", "T", "o", "d", "o", " ", "L", "i", "s", "t", "\n", "\n", "-",
      " ", "[", "x", "]", " ", "T", "a", "s", "k", " ", "1", " ", "r", "e",
      "v", "i", "s", "e", "d", "\n">>

EmptyOrMissing(fs) == ~Exists(fs, TodoPath) \/ fs[TodoPath] = <<>>

Did(action, content) ==
    /\ ops' = ops + 1
    /\ lastCall'.action = action
    /\ lastCall'.content = content

Holds(fs, content) == Exists(fs, TodoPath) /\ fs[TodoPath] = content

TodoScenario ==
    /\ (EmptyOrMissing(files) /\ Did("add", Task1)) =>
          (Holds(files', AfterAdd) /\ lastCall'.result.ExitCode = 0)
    /\ (Holds(files, AfterAdd) /\ Did("complete", Task1)) =>
          (Holds(files', AfterComplete) /\ lastCall'.result.ExitCode = 0)
    /\ (Holds(files, AfterComplete)
        /\ Did("update", Task1 \o Arrow \o Task1Revised)) =>
          (Holds(files', AfterUpdate) /\ lastCall'.result.ExitCode = 0)

\* C29: on an empty or missing checklist add("Task 1") writes the heading,
\* an empty line and the line "- [ ] Task 1"; on that file
\* complete("Task 1") turns the line into "- [x] Task 1"; on that file
\* update("Task 1 -> Task 1 revised") succeeds and turns the line into
\* "- [x] Task 1 revised", the done marker kept.
C29_AddCompleteUpdate == [][TodoScenario]_vars

\* the three calls were made in this order on a missing file
C29_Witness ==
    /\ ops = 3
    /\ lastCall.tool = "todo"
    /\ lastCall.action = "update"
    /\ lastCall.content = Task1 \o Arrow \o Task1Revised
    /\ lastCall.result.ExitCode = 0
    /\ Holds(files, AfterUpdate)

\* ------------------------------------------------- applies against previews
\* C30: after any sequence of sed operations every triple applied with
\* success was previewed with success before, so that no triple has more
\* successful applies than successful previews: a triple with a successful
\* apply has a successful preview.
C30_AppliesNeverExceedPreviews == applied \subseteq previewed

\* -------------------------------------------------- allow-list frame
\* the answers that stand for allow-once
OnceAnswers(prog) == IF prog = "toolSuite" THEN {"y", "yes"} ELSE {"yes"}

\* the step changes the allow-list only on always-allow, and then by adding
\* the first field of the command
AllowListGainsOnAlways ==
    /\ alwaysAllowedCommands \subseteq alwaysAllowedCommands'
    /\ alwaysAllowedCommands' # alwaysAllowedCommands =>
          /\ lastPrompt'.shown
          /\ lastPrompt'.answer \in AlwaysAnswers(program)
          /\ alwaysAllowedCommands' =
                alwaysAllowedCommands \cup {Fields(lastPrompt'.command)[1]}

\* j is the gate call that follows the gate call i
NextGateCall(i, j) ==
    i < j /\ \A k \in GateCalls : ~(i < k /\ k < j)

AnsweredOnce(i) ==
    gateLog[i].prompted /\ gateLog[i].answer \in OnceAnswers(program)

PromptsAgainAfterOnce ==
    \A i \in GateCalls : \A j \in GateCalls :
        (NextGateCall(i, j) /\ AnsweredOnce(i) /\ SameBinary(i, j)) =>
            gateLog[j].prompted

\* C31: a step changes the allow-list only when the operator has answered
\* always-allow, and then by adding the first field of that command; every
\* other answer, the test-mode bypass, the execution of a command and a new
\* instruction leave it as it was and nothing is ever removed; after
\* allow-once the next command with the same first field prompts again.
C31_AllowListChangesOnlyOnAlways ==
    [][AllowListGainsOnAlways]_vars /\ []PromptsAgainAfterOnce

\* allow-once for "x", then "x y" prompts again and is always-allowed
C31_Witness ==
    /\ Len(gateLog) = 2
    /\ gateLog[1].kind = "call" /\ gateLog[1].command = <<"x">>
    /\ gateLog[1].prompted /\ gateLog[1].answer \in OnceAnswers(program)
    /\ gateLog[1].ran
    /\ gateLog[2].kind = "call" /\ gateLog[2].command = <<"x", " ", "y">>
    /\ gateLog[2].prompted /\ gateLog[2].answer \in AlwaysAnswers(program)
    /\ alwaysAllowedCommands = {<<"x">>}

\* ------------------------------------------------- history and request
IsPrefix(s, t) == Len(s) <= Len(t) /\ SubSeq(t, 1, Len(s)) = s

\* main has read the next instruction
StartsInstruction == pc \in {"success", "error"} /\ pc' = "call"

HistoryGrowsOrRestarts ==
    IF StartsInstruction
    THEN messages' = <<SystemMessage, UserMessage("prompt", "instruction")>>
    ELSE IsPrefix(messages, messages')

\* the chat message r is the history message m
Carries(r, m) ==
    /\ r.role = IF m.kind = "tool_result" THEN "tool" ELSE m.role
    /\ m.role = "user" /\ m.kind # "tool_result" => r.content = m.text
    /\ m.kind = "tool_result" => (r.content = m.content /\ r.toolCallId = m.id)
    /\ m.role = "assistant" =>
          [j \in 1..Len(r.toolCalls) |-> r.toolCalls[j].id]
             = LET T == SelectSeq(m.blocks, LAMBDA b : b.type = "tool_use")
               IN  [j \in 1..Len(T) |-> T[j].id]

\* the request about to be sent: one system message, then the history
RequestCarriesHistory ==
    LET R == SubSeq(RequestMessages, 1, Len(RequestMessages))
        H == SelectSeq(messages, LAMBDA m : m.role # "system")
    IN  /\ Len(R) = 1 + Len(H)
        /\ R[1].role = "system"
        /\ \A i \in 2..Len(R) : R[i].role # "system"
        /\ H[1].role = "user" /\ H[1].kind = "prompt"
        /\ \A i \in 1..Len(H) : Carries(R[i + 1], H[i])

\* C32: while one instruction runs every step leaves the history it found
\* as a prefix of the history it leaves; every request about to be sent is
\* one system message followed by all the messages of the history in their
\* order, the first being the user's instruction; reading a new
\* instruction sets the history to the system message and the new user
\* message.
C32_HistoryGrowsAndIsSentWhole ==
    [][HistoryGrowsOrRestarts]_vars /\ [](pc = "call" => RequestCarriesHistory)

\* the bash agent ran a command under one instruction and is about to send
\* the first request of the next one
C32_Witness ==
    /\ program = "bashAgent"
    /\ pc = "call"
    /\ executed # <<>>
    /\ messages = <<SystemMessage, UserMessage("prompt", "instruction")>>

\* ------------------------------------------------- sed without dryRun
\* the step dispatches a sed invocation whose input has no dryRun
SedWithoutDryRun ==
    /\ ops' = ops + 1
    /\ lastCall'.tool = "sed"
    /\ lastCall'.dryRunArg = "absent"

SedWithoutDryRunSkipped ==
    SedWithoutDryRun =>
        /\ lastCall'.skipped
        /\ ~lastCall'.ran
        /\ files' = files
        /\ sedDryRunCache' = sedDryRunCache

\* C33: a sed invocation of the tool-suite loop whose input has no dryRun is
\* skipped: executeSed is not called, no file changes and the cache stays
\* as it was, also when the cache holds the entry of the triple.
C33_SedWithoutDryRunIsSkipped == [][SedWithoutDryRunSkipped]_vars

\* ------------------------------------------------ one boolean per key
Succeeded(call) == call.result.ExitCode = 0

EntryIsABoolean ==
    ops' = ops + 1 =>
       \* a preview repeated while the entry is there changes nothing
       /\ (IsPreview(lastCall') /\ Succeeded(lastCall') /\ lastCall'.entry)
             => sedDryRunCache' = sedDryRunCache
       \* one apply takes the whole approval, whatever number of previews
       \* gave it
       /\ (IsApply(lastCall') /\ Succeeded(lastCall'))
             => sedDryRunCache' = sedDryRunCache \ {KeyOf(lastCall')}
       \* and the apply of the triple that follows is refused
       /\ (/\ IsApply(lastCall) /\ Succeeded(lastCall)
           /\ IsApply(lastCall') /\ Triple(lastCall') = Triple(lastCall))
             => Rejected(lastCall')

FailedApplyKeepsTheEntry ==
    ops' = ops + 1 =>
       \* a failed apply deletes nothing
       /\ (IsApply(lastCall') /\ ~Succeeded(lastCall'))
             => sedDryRunCache' = sedDryRunCache
       \* one that passed the guard keeps its entry
       /\ (IsApply(lastCall') /\ lastCall'.ran /\ ~Succeeded(lastCall'))
             => KeyOf(lastCall') \in sedDryRunCache'
       \* and the same apply issued again passes the guard
       /\ (/\ IsApply(lastCall) /\ lastCall.ran /\ ~Succeeded(lastCall)
           /\ IsApply(lastCall') /\ Triple(lastCall') = Triple(lastCall))
             => lastCall'.ran

\* C35: an apply that passed the guard and whose sed -i failed, by its exit
\* status or at the deadline, leaves the entry of its key in the cache, and
\* the same apply issued right after it passes the guard again; an apply
\* that fails leaves the whole cache as it was.
C35_FailedApplyKeepsTheEntry == [][FailedApplyKeepsTheEntry]_vars

\* the apply of the one previewed triple passed the guard and failed: its
\* entry is still there
C35_Witness ==
    /\ IsApply(lastCall)
    /\ lastCall.ran
    /\ lastCall.entry
    /\ previewed = {Triple(lastCall)}
    /\ applied = {}
    /\ KeyOf(lastCall) \in sedDryRunCache

\* -------------------------------------------- the preview and other files
PreviewKeepsEveryFile ==
    (ops' = ops + 1 /\ IsPreview(lastCall')) =>
        \A path \in DOMAIN files : SameFile(files, files', path)

\* C36: a preview leaves every file that was there before it, the target
\* and the file at the scratch path filePath + ".tmp" among them, in place
\* and with the content it had.
C36_PreviewKeepsEveryFile == [][PreviewKeepsEveryFile]_vars

\* ------------------------------------------- results next to their message
IsResult(m) == m.kind = "tool_result"

\* every tool result comes right after an assistant message or after
\* another tool result
ResultsFollowAssistant(msgs) ==
    \A i \in 1..Len(msgs) :
        IsResult(msgs[i]) =>
            /\ i > 1
            /\ msgs[i - 1].role = "assistant" \/ IsResult(msgs[i - 1])

\* C37: in the history, between an assistant message and each of the tool
\* results that answer it there are only tool results; the user message
\* that carries the operator's alternative instruction is not put between
\* the assistant message and the result of the command it replaces.
C37_ResultsFollowTheirAssistantMessage ==
    program # "none" => ResultsFollowAssistant(messages)

\* -------------------------------------------- checklist calls that fail
\* the place of the first occurrence of p in line, 0 if there is none
FirstAt(line, p) ==
    IF Contains(line, p)
    THEN CHOOSE k \in 1..(Len(line) + 1) :
            HasPrefixAt(line, k, p) /\ \A j \in 1..(k - 1) : ~HasPrefixAt(line, j, p)
    ELSE 0

\* the marker of a checklist line: the check box the line shows first
\* (<<>> for a line without one)
MarkerOf(line) ==
    LET u == FirstAt(line, Unchecked)
        c == FirstAt(line, Checked)
    IN  IF u = 0 /\ c = 0 THEN <<>>
        ELSE IF c = 0 \/ (u # 0 /\ u < c) THEN Unchecked
        ELSE Checked

TodoFailed(call) == call.result.ExitCode = 1 /\ call.result.Stderr # ""

\* the lines of the checklist file (none when it is missing)
TodoLines(fs) ==
    IF Exists(fs, TodoPath) THEN SplitSeq(fs[TodoPath], "\n") ELSE <<>>

\* a line that holds the text and is pending
HasPendingLine(fs, item) ==
    LET lines == TodoLines(fs)
    IN  \E i \in 1..Len(lines) :
           Contains(lines[i], item) /\ MarkerOf(lines[i]) = Unchecked

\* a line that holds the text and is pending or done
HasChecklistLine(fs, item) ==
    LET lines == TodoLines(fs)
    IN  \E i \in 1..Len(lines) :
           Contains(lines[i], item) /\ MarkerOf(lines[i]) # <<>>

\* the step makes a checklist call that the claim lists as failing
TodoMustFail ==
    /\ ops' = ops + 1
    /\ lastCall'.tool = "todo"
    /\ LET action == lastCall'.action
           content == lastCall'.content
           parts == SplitStr(content, Arrow)
       IN  \/ action \notin {"read", "write", "add", "complete", "update"}
           \/ action = "complete" /\ ~HasPendingLine(files, content)
           \/ action = "update" /\ Len(parts) # 2
           \/ /\ action = "update" /\ Len(parts) = 2
              /\ ~HasChecklistLine(files, TrimSpace(parts[1]))
           \/ action = "read" /\ ~Exists(files, TodoPath)

FailedTodoChangesNothing ==
    /\ TodoMustFail => TodoFailed(lastCall')
    /\ (ops' = ops + 1 /\ lastCall'.tool = "todo"
        /\ lastCall'.result.ExitCode # 0) =>
          (files' = files /\ TodoFailed(lastCall'))

\* C38: a checklist call with an unknown action, a complete with no pending
\* line that holds the item (a line that is done does not count), an update
\* whose
\* argument does not split into two parts at " -> ", an update with no
\* checklist line that holds the old text, and a read of a missing file
\* return exit code 1 with a stderr text; a checklist call that fails
\* leaves the files as they were.
C38_FailedTodoChangesNothing == [][FailedTodoChangesNothing]_vars

\* ------------------------------------------------ one line is rewritten
\* the first line with one of the markers that holds the text, 0 if none
FirstWith(lines, text, markers) ==
    IF \E i \in 1..Len(lines) :
          Contains(lines[i], text) /\ MarkerOf(lines[i]) \in markers
    THEN CHOOSE i \in 1..Len(lines) :
            /\ Contains(lines[i], text) /\ MarkerOf(lines[i]) \in markers
            /\ \A j \in 1..(i - 1) :
                  ~(Contains(lines[j], text) /\ MarkerOf(lines[j]) \in markers)
    ELSE 0

\* the lines after are the lines before with line i replaced
OnlyLineChanged(before, after, i, line) ==
    /\ i # 0
    /\ after = [before EXCEPT ![i] = line]

TodoSucceeded(action) ==
    /\ ops' = ops + 1
    /\ lastCall'.tool = "todo"
    /\ lastCall'.action = action
    /\ lastCall'.result.ExitCode = 0

CompleteRewrites(before, after, item) ==
    LET i == FirstWith(before, item, {Unchecked})
    IN  OnlyLineChanged(before, after, i,
                        ReplaceFirst(before[i], Unchecked, Checked))

UpdateRewrites(before, after, oldItem, newItem) ==
    LET i == FirstWith(before, oldItem, {Unchecked, Checked})
    IN  OnlyLineChanged(before, after, i,
                        MarkerOf(before[i]) \o <<" ">> \o newItem)

OneLineIsRewritten ==
    /\ TodoSucceeded("complete") =>
          CompleteRewrites(TodoLines(files), TodoLines(files'),
                           lastCall'.content)
    /\ TodoSucceeded("update") =>
          LET parts == SplitStr(lastCall'.content, Arrow)
          IN  UpdateRewrites(TodoLines(files), TodoLines(files'),
                             TrimSpace(parts[1]), TrimSpace(parts[2]))

\* C39: a complete that succeeds changes the first pending line that holds
\* the item, turning its "- [ ]" into "- [x]", and an update that succeeds
\* changes the first checklist line, pending or done, that holds the old
\* text, the line keeping its marker; all other lines and the order of the
\* lines stay as they were.
C39_OnlyTheFirstMatchingLineChanges == [][OneLineIsRewritten]_vars

\* ------------------------------------------------------------- liveness
\* the response under work carries finished / finish
FinishReceived == pc = "dispatch" /\ FinishPositions # {}

\* C40: when every remote call returns, every prompt is answered and the
\* remote side at some time sends a response with finished / finish, the
\* loop at some time has stopped.
C40_LoopTerminates == <>FinishReceived => <>Ended

====
